---- MODULE Spec2Model ----
(***************************************************************************)
(* Subscription-state reconciliation of the storage-unit-management app:   *)
(* the Stripe webhook handlers of accounts/webhooks.py acting on the       *)
(* Subscription rows of accounts/models.py.                                *)
(*                                                                         *)
(* Datetimes are represented by their epoch second, so                     *)
(* datetime.fromtimestamp(ts, tz=utc) keeps the number.  None (Python      *)
(* None, SQL NULL, a missing key read with .get) is 0; provider epoch      *)
(* timestamps and the clock are >= 1, so the code's truth tests            *)
(* (`if not start`, `if trial_end`) are tests against None.                *)
(***************************************************************************)
EXTENDS Integers, Sequences, FiniteSets, TLC

VARIABLES subs, provider, now, last, procs, call, customers, units, tenants,
          tenancies

vars == <<subs, provider, now, last, procs, call, customers, units, tenants,
          tenancies>>

\* customers: how many customers stripe.Customer.create has returned to each
\* user's checkout requests; kept by the specification of the user-facing
\* views, which also records each request's provider calls.
\* The tables of storage/models.py.
storage == <<units, tenants, tenancies>>

\* ------------------------------------------------------------------ bounds
\* Largest epoch second of a payload.
MaxTime == 3
\* Largest reading of the clock.
MaxNow == 2
\* Most customers counted per user.
MaxCustomers == 2

None == 0
Ts == 1..MaxTime
OptTs == {None} \cup Ts

\* --------------------------------------------------------- Subscription
STATUS_ACTIVE == "active"
STATUS_CANCELED == "canceled"
STATUS_PAST_DUE == "past_due"
STATUS_UNPAID == "unpaid"
STATUS_TRIALING == "trialing"
STATUS_INCOMPLETE == "incomplete"
STATUS_INCOMPLETE_EXPIRED == "incomplete_expired"

STATUS_CHOICES ==
  {STATUS_ACTIVE, STATUS_CANCELED, STATUS_PAST_DUE, STATUS_UNPAID,
   STATUS_TRIALING, STATUS_INCOMPLETE, STATUS_INCOMPLETE_EXPIRED}

\* Status strings the provider can send that status_map has no key for
\* ("paused" is one the provider really uses), and "None" for a null status.
UnknownStatuses == {"paused", "bogus", "None"}
ProviderStatuses == STATUS_CHOICES \cup UnknownStatuses

\* Subscription.is_active at clock reading t.  A stored datetime is always
\* truthy, so `if self.current_period_end` tests for NULL only.
is_active_lax(sub, t) ==
  IF sub.status \in {STATUS_ACTIVE, STATUS_TRIALING}
  THEN IF sub.current_period_end # None
       THEN t <= sub.current_period_end
       ELSE TRUE
  ELSE FALSE

is_active(sub, t) ==
  IF sub.status \in {STATUS_ACTIVE, STATUS_TRIALING}
  THEN IF sub.current_period_end # None
       THEN t < sub.current_period_end
       ELSE TRUE
  ELSE FALSE

\* ------------------------------------------------------------ pure helpers
\* map_stripe_status_to_model with a status_map.get that has no default.
map_stripe_status_to_model_raw(stripe_status) == stripe_status

\* status_map.get(stripe_status, STATUS_INCOMPLETE)
map_stripe_status_to_model(stripe_status) ==
  IF stripe_status \in STATUS_CHOICES THEN stripe_status ELSE STATUS_INCOMPLETE

\* A line item of a subscription payload; `period` None or {} is a period
\* whose start and end are None.
Items ==
  [current_period_start : OptTs, current_period_end : OptTs,
   period : [start : OptTs, end : OptTs]]

\* items.data ((items or {}).get("data") or []): no line item, one, or one
\* followed by a second item of the latest period.
SecondItem ==
  [current_period_start |-> MaxTime, current_period_end |-> MaxTime,
   period |-> [start |-> MaxTime, end |-> MaxTime]]
ItemLists == {<<>>} \cup {<<i>> : i \in Items} \cup {<<i, SecondItem>> : i \in Items}

\* The period part of every subscription payload.
PeriodPayloads ==
  [current_period_start : OptTs, current_period_end : OptTs, items : ItemLists]

\* The extractor with the line item taking priority over the top level.
extract_period_item_first(sub_dict) ==
  LET data == sub_dict.items
      item == data[1]
      istart == IF item.current_period_start # None
                THEN item.current_period_start ELSE item.period.start
      iend == IF item.current_period_end # None
              THEN item.current_period_end ELSE item.period.end
  IN  IF data # <<>>
      THEN <<IF istart # None THEN istart ELSE sub_dict.current_period_start,
             IF iend # None THEN iend ELSE sub_dict.current_period_end>>
      ELSE <<sub_dict.current_period_start, sub_dict.current_period_end>>

\* The extractor without step 3 (the nested period of the first item).
extract_period_no_nested(sub_dict) ==
  LET data == sub_dict.items
      item == data[1]
  IN  IF data # <<>>
      THEN <<IF sub_dict.current_period_start = None
             THEN item.current_period_start ELSE sub_dict.current_period_start,
             IF sub_dict.current_period_end = None
             THEN item.current_period_end ELSE sub_dict.current_period_end>>
      ELSE <<sub_dict.current_period_start, sub_dict.current_period_end>>

\* _extract_period_dates_from_subscription: <<start, end>>.
_extract_period_dates_from_subscription(sub_dict) ==
  LET start1 == sub_dict.current_period_start
      end1 == sub_dict.current_period_end
      data == sub_dict.items
      item == data[1]
      start2 == IF start1 = None THEN item.current_period_start ELSE start1
      end2 == IF end1 = None THEN item.current_period_end ELSE end1
      period == item.period
      start3 == IF start2 = None THEN period.start ELSE start2
      end3 == IF end2 = None THEN period.end ELSE end2
  IN  IF data # <<>> THEN <<start3, end3>> ELSE <<start1, end1>>


\* ------------------------------------------------------- ids and payloads
NoId == "None"
SubIds == {"sub_1", "sub_2"}
CustIds == {"cus_A", "cus_B"}
\* CustomUser rows (ids).
Users == {1, 2}
NoUser == 0

\* The customer stripe.Customer.create returns for a user's checkout:
\* cus_A for user 1, cus_C for user 2.
CustomerOf(user_id) == IF user_id = 1 THEN "cus_A" ELSE "cus_C"

\* A second provider customer that carries user 1's id (created by another
\* checkout of that user whose row was not written, or by hand).
SecondCustomer == "cus_D"

\* customer.metadata.get("user_id") of the provider's customers: cus_A and
\* cus_D were created for user 1 and cus_C for user 2, cus_B carries no
\* user_id.
CustomerMetadataUserId(customer_id) ==
  IF customer_id \in {"cus_A", SecondCustomer} THEN 1
  ELSE IF customer_id = "cus_C" THEN 2
  ELSE NoUser

NoItems == <<>>
FlexItem(p) ==
  <<[current_period_start |-> p[1], current_period_end |-> p[2],
     period |-> [start |-> None, end |-> None]]>>

SubscriptionObject(id, customer, status, cape, trial_end, start, end, items) ==
  [id |-> id, customer |-> customer, status |-> status,
   cancel_at_period_end |-> cape, trial_end |-> trial_end,
   current_period_start |-> start, current_period_end |-> end,
   items |-> items]

\* What the provider can hold as the live object of a subscription id: a
\* classic active one in its first period, a flexible one (period on the
\* first item) in its latest period and set to cancel, a paused one without
\* a period.
LiveObjects(id) ==
  {SubscriptionObject(id, "cus_A", STATUS_ACTIVE, FALSE, None, 1, 2, NoItems)}
  \cup IF id = "sub_1"
       THEN {SubscriptionObject(id, "cus_A", STATUS_ACTIVE, TRUE, None, None, None,
                                FlexItem(<<MaxTime - 1, MaxTime>>)),
             SubscriptionObject(id, "cus_A", "paused", FALSE, None, None, None,
                                NoItems)}
       ELSE {}

\* The subscription objects events embed: snapshots of the above, and a
\* trialing one whose period end is missing.
EventObjects(id) ==
  {[o EXCEPT !.id = id] : o \in LiveObjects("sub_1")}
  \cup {SubscriptionObject(id, "cus_A", STATUS_TRIALING, FALSE, MaxTime, 1, None,
                           NoItems)}

\* The same for a subscription of customer cus_B.
OtherCustomerObjects(id) ==
  {SubscriptionObject(id, "cus_B", STATUS_ACTIVE, FALSE, None, 1, 2, NoItems)}

\* ------------------------------------------------------------ the database
\* A Subscription row; the table maps the user (OneToOneField) to its row.
NewSubscription(customer_id, subscription_id, status) ==
  [status |-> status,
   stripe_subscription_id |-> subscription_id,
   stripe_customer_id |-> customer_id,
   current_period_start |-> None, current_period_end |-> None,
   cancel_at_period_end |-> FALSE, trial_end |-> None]

\* Rows of `db` with the given external subscription id / customer id
\* (Subscription.objects.get(...): unique columns, so at most one).
BySubscriptionId(db, sid) ==
  {u \in DOMAIN db : sid # NoId /\ db[u].stripe_subscription_id = sid}
ByCustomerId(db, cid) ==
  {u \in DOMAIN db : cid # NoId /\ db[u].stripe_customer_id = cid}

\* unique=True on stripe_subscription_id and stripe_customer_id: saving `row`
\* for user u raises IntegrityError when another row holds one of its ids.
UniqueViolation(db, u, row) ==
  \E v \in DOMAIN db \ {u} :
    \/ row.stripe_subscription_id # NoId
       /\ db[v].stripe_subscription_id = row.stripe_subscription_id
    \/ row.stripe_customer_id # NoId
       /\ db[v].stripe_customer_id = row.stripe_customer_id

\* save() on a table without the unique constraints.
Save_unchecked(db, u, row) == [db |-> (u :> row) @@ db, raised |-> FALSE]

\* subscription.save(): every column of the in-memory object is written.
\* Result: the table and whether the save raised.
Save(db, u, row) ==
  IF UniqueViolation(db, u, row)
  THEN [db |-> db, raised |-> TRUE]
  ELSE [db |-> (u :> row) @@ db, raised |-> FALSE]


\* ------------------------------------------------------------ reconciler
\* update_subscription_from_stripe that replaces the optional timestamps by
\* whatever the source holds, None included, instead of skipping None.
update_fields_replace(subscription, data_dict, prov, retrieve_ok) ==
  LET id == IF data_dict.id # NoId THEN data_dict.id
            ELSE subscription.stripe_subscription_id
      dates == _extract_period_dates_from_subscription(prov[id])
  IN  [subscription EXCEPT
         !.status = map_stripe_status_to_model(data_dict.status),
         !.stripe_subscription_id = id,
         !.current_period_start =
            IF id = NoId THEN @
            ELSE IF retrieve_ok THEN dates[1] ELSE data_dict.current_period_start,
         !.current_period_end =
            IF id = NoId THEN @
            ELSE IF retrieve_ok THEN dates[2] ELSE data_dict.current_period_end,
         !.trial_end = data_dict.trial_end,
         !.cancel_at_period_end = data_dict.cancel_at_period_end]

\* update_subscription_from_stripe that flips the stored cancel flag when the
\* payload's flag is false instead of storing the payload's flag.
update_fields_toggle_cancel(subscription, data_dict, prov, retrieve_ok) ==
  LET id == IF data_dict.id # NoId THEN data_dict.id
            ELSE subscription.stripe_subscription_id
      dates == _extract_period_dates_from_subscription(prov[id])
      src == IF retrieve_ok THEN dates
             ELSE <<data_dict.current_period_start, data_dict.current_period_end>>
  IN  [subscription EXCEPT
         !.status = map_stripe_status_to_model(data_dict.status),
         !.stripe_subscription_id = id,
         !.current_period_start =
            IF id # NoId /\ src[1] # None THEN src[1] ELSE @,
         !.current_period_end =
            IF id # NoId /\ src[2] # None THEN src[2] ELSE @,
         !.trial_end = IF data_dict.trial_end # None THEN data_dict.trial_end ELSE @,
         !.cancel_at_period_end = ~@ \/ data_dict.cancel_at_period_end]

\* update_subscription_from_stripe that gives up, leaving the object as it
\* was, when the re-fetch fails.
update_fields_abort(subscription, data_dict, prov, retrieve_ok) ==
  IF ~retrieve_ok THEN subscription
  ELSE LET id == IF data_dict.id # NoId THEN data_dict.id
                 ELSE subscription.stripe_subscription_id
           src == _extract_period_dates_from_subscription(prov[id])
       IN  [subscription EXCEPT
              !.status = map_stripe_status_to_model(data_dict.status),
              !.stripe_subscription_id = id,
              !.current_period_start = IF id # NoId /\ src[1] # None THEN src[1] ELSE @,
              !.current_period_end = IF id # NoId /\ src[2] # None THEN src[2] ELSE @,
              !.trial_end = IF data_dict.trial_end # None THEN data_dict.trial_end ELSE @,
              !.cancel_at_period_end = data_dict.cancel_at_period_end]

\* The in-memory Subscription after update_subscription_from_stripe has
\* assigned its fields, before save().  `prov` is the provider's live
\* subscriptions, retrieve_ok whether stripe.Subscription.retrieve returns.
update_fields(subscription, data_dict, prov, retrieve_ok) ==
  LET \* if stripe_sub_id: subscription.stripe_subscription_id = stripe_sub_id
      id == IF data_dict.id # NoId THEN data_dict.id
            ELSE subscription.stripe_subscription_id
      \* subscription.stripe_subscription_id or stripe_sub_id
      subscription_id_to_retrieve == IF id # NoId THEN id ELSE data_dict.id
      dates == _extract_period_dates_from_subscription(
                 prov[subscription_id_to_retrieve])
      \* try: the re-fetched object through the extractor;
      \* except: the payload's top-level fields only
      src == IF retrieve_ok THEN dates
             ELSE <<data_dict.current_period_start, data_dict.current_period_end>>
  IN  [subscription EXCEPT
         !.status = map_stripe_status_to_model(data_dict.status),
         !.stripe_subscription_id = id,
         !.current_period_start =
            IF subscription_id_to_retrieve # NoId /\ src[1] # None THEN src[1] ELSE @,
         !.current_period_end =
            IF subscription_id_to_retrieve # NoId /\ src[2] # None THEN src[2] ELSE @,
         !.trial_end = IF data_dict.trial_end # None THEN data_dict.trial_end ELSE @,
         !.cancel_at_period_end = data_dict.cancel_at_period_end]

\* update_subscription_from_stripe(subscription, subscription_data) for the
\* row of user u: [db, raised].
update_subscription_from_stripe(db, u, subscription, data_dict, prov, retrieve_ok) ==
  Save(db, u, update_fields(subscription, data_dict, prov, retrieve_ok))

\* -------------------------------------------------------------- handlers
\* Each handler: the table after it and whether it raised, [db, raised].
Returned(db) == [db |-> db, raised |-> FALSE]
Raised(db) == [db |-> db, raised |-> TRUE]

\* handle_subscription_created that, when the metadata names a user who
\* already has a Subscription, replaces that row.
handle_subscription_created_overwrite(db, subscription_dict, prov, customer_ok, retrieve_ok) ==
  LET found == ByCustomerId(db, subscription_dict.customer)
      user_id == CustomerMetadataUserId(subscription_dict.customer)
      row == NewSubscription(subscription_dict.customer, subscription_dict.id,
                             subscription_dict.status)
  IN  IF found # {}
      THEN LET u == CHOOSE v \in found : TRUE
           IN  update_subscription_from_stripe(db, u, db[u], subscription_dict,
                                               prov, retrieve_ok)
      ELSE IF ~customer_ok THEN Raised(db)
      ELSE IF user_id = NoUser \/ user_id \notin Users THEN Returned(db)
      ELSE IF UniqueViolation(db, user_id, row) THEN Raised(db)
      ELSE update_subscription_from_stripe((user_id :> row) @@ db, user_id, row,
                                           subscription_dict, prov, retrieve_ok)

\* handle_subscription_created.  customer_ok: stripe.Customer.retrieve returns.
handle_subscription_created(db, subscription_dict, prov, customer_ok, retrieve_ok) ==
  LET found == ByCustomerId(db, subscription_dict.customer)
      user_id == CustomerMetadataUserId(subscription_dict.customer)
      row == NewSubscription(subscription_dict.customer, subscription_dict.id,
                             subscription_dict.status)
  IN  IF found # {}
      THEN LET u == CHOOSE v \in found : TRUE
           IN  update_subscription_from_stripe(db, u, db[u], subscription_dict,
                                               prov, retrieve_ok)
      ELSE IF ~customer_ok THEN Raised(db)
      ELSE IF user_id = NoUser \/ user_id \notin Users THEN Returned(db)
      \* Subscription.objects.create: IntegrityError on the one-to-one user
      \* or on a unique id
      ELSE IF user_id \in DOMAIN db \/ UniqueViolation(db, user_id, row)
      THEN Raised(db)
      ELSE update_subscription_from_stripe((user_id :> row) @@ db, user_id, row,
                                           subscription_dict, prov, retrieve_ok)

\* handle_subscription_updated
handle_subscription_updated(db, subscription_dict, prov, retrieve_ok) ==
  LET found == BySubscriptionId(db, subscription_dict.id)
  IN  IF found = {} THEN Returned(db)
      ELSE LET u == CHOOSE v \in found : TRUE
           IN  update_subscription_from_stripe(db, u, db[u], subscription_dict,
                                               prov, retrieve_ok)

\* The deleted handler's assignments without the one to current_period_end.
deleted_fields_keep_end(subscription, t) ==
  [subscription EXCEPT !.status = STATUS_CANCELED, !.cancel_at_period_end = FALSE]

\* The in-memory row after handle_subscription_deleted's assignments at
\* clock reading t (django_timezone.now()).
deleted_fields(subscription, t) ==
  [subscription EXCEPT !.status = STATUS_CANCELED,
                       !.cancel_at_period_end = FALSE,
                       !.current_period_end = t]

\* handle_subscription_deleted that deletes the row.
handle_subscription_deleted_hard(db, subscription_data, t) ==
  LET found == BySubscriptionId(db, subscription_data.id)
  IN  Returned([v \in DOMAIN db \ found |-> db[v]])

\* handle_subscription_deleted that cancels a row that has a subscription,
\* whatever subscription id the row holds now.
handle_subscription_deleted_any(db, subscription_data, t) ==
  LET found == {v \in DOMAIN db : db[v].stripe_subscription_id # NoId}
  IN  IF subscription_data.id = NoId \/ found = {} THEN Returned(db)
      ELSE LET u == CHOOSE v \in found : TRUE
           IN  Save(db, u, deleted_fields(db[u], t))

\* handle_subscription_deleted
handle_subscription_deleted(db, subscription_data, t) ==
  LET found == BySubscriptionId(db, subscription_data.id)
  IN  IF subscription_data.id = NoId \/ found = {} THEN Returned(db)
      ELSE LET u == CHOOSE v \in found : TRUE
           IN  Save(db, u, deleted_fields(db[u], t))

\* handle_invoice_payment_succeeded that moves the stored period end on by
\* one period per paid invoice instead of reading it from the provider.
paid_fields_extend(subscription, invoice_data, prov, retrieve_ok) ==
  [subscription EXCEPT
     !.status = STATUS_ACTIVE,
     !.current_period_end = IF @ # None /\ @ < MaxTime THEN @ + 1 ELSE @]

\* handle_invoice_payment_succeeded without the assignment to status.
paid_fields_keep_status(subscription, invoice_data, prov, retrieve_ok) ==
  LET dates == _extract_period_dates_from_subscription(prov[invoice_data.subscription])
      src == IF retrieve_ok THEN dates
             ELSE <<invoice_data.period_start, invoice_data.period_end>>
  IN  [subscription EXCEPT
         !.current_period_start = IF src[1] # None THEN src[1] ELSE @,
         !.current_period_end = IF src[2] # None THEN src[2] ELSE @]

\* handle_invoice_payment_succeeded without the fallback to the invoice's
\* period fields.
paid_fields_no_fallback(subscription, invoice_data, prov, retrieve_ok) ==
  LET dates == _extract_period_dates_from_subscription(prov[invoice_data.subscription])
      src == IF retrieve_ok THEN dates ELSE <<None, None>>
  IN  [subscription EXCEPT
         !.status = STATUS_ACTIVE,
         !.current_period_start = IF src[1] # None THEN src[1] ELSE @,
         !.current_period_end = IF src[2] # None THEN src[2] ELSE @]

\* The in-memory row after handle_invoice_payment_succeeded's assignments:
\* the re-fetched subscription through the extractor, or on failure the
\* invoice's own period fields.
paid_fields(subscription, invoice_data, prov, retrieve_ok) ==
  LET dates == _extract_period_dates_from_subscription(prov[invoice_data.subscription])
      src == IF retrieve_ok THEN dates
             ELSE <<invoice_data.period_start, invoice_data.period_end>>
  IN  [subscription EXCEPT
         !.status = STATUS_ACTIVE,
         !.current_period_start = IF src[1] # None THEN src[1] ELSE @,
         !.current_period_end = IF src[2] # None THEN src[2] ELSE @]

\* handle_invoice_payment_succeeded
handle_invoice_payment_succeeded(db, invoice_data, prov, retrieve_ok) ==
  LET found == BySubscriptionId(db, invoice_data.subscription)
  IN  IF invoice_data.subscription = NoId \/ found = {} THEN Returned(db)
      ELSE LET u == CHOOSE v \in found : TRUE
           IN  Save(db, u, paid_fields(db[u], invoice_data, prov, retrieve_ok))

\* handle_invoice_payment_failed that also withdraws a pending cancellation.
failed_fields_clear_flag(subscription) ==
  [subscription EXCEPT !.status = STATUS_PAST_DUE, !.cancel_at_period_end = FALSE]

\* The in-memory row after handle_invoice_payment_failed's assignment.
failed_fields(subscription) == [subscription EXCEPT !.status = STATUS_PAST_DUE]

\* handle_invoice_payment_failed that lets Subscription.DoesNotExist escape.
handle_invoice_payment_failed_strict(db, invoice_data) ==
  LET found == BySubscriptionId(db, invoice_data.subscription)
  IN  IF invoice_data.subscription = NoId THEN Returned(db)
      ELSE IF found = {} THEN Raised(db)
      ELSE LET u == CHOOSE v \in found : TRUE
           IN  Save(db, u, failed_fields(db[u]))

\* handle_invoice_payment_failed
handle_invoice_payment_failed(db, invoice_data) ==
  LET found == BySubscriptionId(db, invoice_data.subscription)
  IN  IF invoice_data.subscription = NoId \/ found = {} THEN Returned(db)
      ELSE LET u == CHOOSE v \in found : TRUE
           IN  Save(db, u, failed_fields(db[u]))

\* handle_checkout_session_completed.  session_ok: the handler's own
\* stripe.Subscription.retrieve returns; every exception is swallowed.
handle_checkout_session_completed(db, session_data, prov, session_ok, retrieve_ok) ==
  LET found == ByCustomerId(db, session_data.customer)
  IN  IF session_data.subscription = NoId \/ found = {} \/ ~session_ok
      THEN Returned(db)
      ELSE LET u == CHOOSE v \in found : TRUE
               subscription ==
                 [db[u] EXCEPT !.stripe_subscription_id = session_data.subscription]
           IN  Returned(update_subscription_from_stripe(
                          db, u, subscription, prov[session_data.subscription],
                          prov, retrieve_ok).db)


\* ------------------------------------------------------ events and state
\* subs:     the subscriptions table, user id -> row
\* provider: the provider's live subscription objects, by id
\* now:      the clock (timezone.now())
\* last:     the step last taken: the webhook event handled, with the
\*           outcomes of the provider calls made for it and the response
\* procs:    handlers in flight when deliveries overlap (SpecConcurrent)
\* call:     a call of one of the pure functions (SpecPure)
TypeCreated == "customer.subscription.created"
TypeUpdated == "customer.subscription.updated"
TypeDeleted == "customer.subscription.deleted"
TypePaid == "invoice.paid"
TypePaymentFailed == "invoice.payment_failed"
TypeCheckoutCompleted == "checkout.session.completed"

\* What `last` keeps of a delivered event: its type, event["data"]["object"],
\* whether stripe.Subscription.retrieve returned during the reconcile /
\* period refresh (retrieve_ok), whether the handler's own earlier provider
\* call returned (pre_ok: Customer.retrieve in created, the first
\* Subscription.retrieve in checkout completed), the response status, and
\* whether this is the event handled last, answered 200, delivered again
\* with the provider calls faring as they did.
Delivered(type, data, retrieve_ok, pre_ok, result) ==
  [type |-> type, data |-> data, retrieve_ok |-> retrieve_ok, pre_ok |-> pre_ok,
   resp |-> IF result.raised THEN 500 ELSE 200,
   again |-> /\ last.type = type
             /\ last.data = data
             /\ last.retrieve_ok = retrieve_ok
             /\ last.pre_ok = pre_ok
             /\ last.resp = 200]

\* Steps that are no webhook delivery.
Step(name) ==
  [type |-> name, data |-> [id |-> NoId], retrieve_ok |-> TRUE, pre_ok |-> TRUE,
   resp |-> 0, again |-> FALSE]

InvoiceObjects ==
  {[subscription |-> sid, period_start |-> p[1], period_end |-> p[2]] :
     sid \in SubIds \cup {NoId},
     p \in {<<None, None>>, <<MaxTime - 1, MaxTime>>, <<1, None>>}}

SessionObjects ==
  {[subscription |-> sid, customer |-> c] :
     sid \in SubIds \cup {NoId}, c \in CustIds}

\* The row a checkout request leaves behind (SubscriptionCheckoutView.post:
\* customer id only, status incomplete).
CheckoutRow == NewSubscription("cus_A", NoId, STATUS_INCOMPLETE)

\* No customer was created through the checkout page yet.
NoCustomers == [u \in Users |-> 0]

\* The storage tables are empty.
StorageEmpty == units = <<>> /\ tenants = <<>> /\ tenancies = {}

NoProcs == <<>>
NoCall == [fn |-> "none"]

Init ==
  /\ subs \in {<<>>, (1 :> CheckoutRow)}
  /\ provider \in [SubIds -> UNION {LiveObjects(id) : id \in SubIds}]
  /\ \A id \in SubIds : provider[id] \in LiveObjects(id)
  /\ now = 1
  /\ last = Step("init")
  /\ procs = NoProcs
  /\ call = NoCall
  /\ customers = NoCustomers
  /\ StorageEmpty

\* stripe_webhook after verification: route, run the handler, answer 500 if
\* it raised and 200 otherwise.
Dispatch(delivered, result) ==
  /\ subs' = result.db
  /\ last' = delivered
  /\ UNCHANGED <<provider, now, procs, call, customers, storage>>

SubscriptionCreated(data, customer_ok, retrieve_ok) ==
  LET result == handle_subscription_created(subs, data, provider, customer_ok,
                                            retrieve_ok)
  IN  Dispatch(Delivered(TypeCreated, data, retrieve_ok, customer_ok, result),
               result)

SubscriptionUpdated(data, retrieve_ok) ==
  LET result == handle_subscription_updated(subs, data, provider, retrieve_ok)
  IN  Dispatch(Delivered(TypeUpdated, data, retrieve_ok, TRUE, result),
               result)

SubscriptionDeleted(data) ==
  LET result == handle_subscription_deleted(subs, data, now)
  IN  Dispatch(Delivered(TypeDeleted, data, TRUE, TRUE, result),
               result)

InvoicePaid(data, retrieve_ok) ==
  LET result == handle_invoice_payment_succeeded(subs, data, provider, retrieve_ok)
  IN  Dispatch(Delivered(TypePaid, data, retrieve_ok, TRUE, result),
               result)

InvoicePaymentFailed(data) ==
  LET result == handle_invoice_payment_failed(subs, data)
  IN  Dispatch(Delivered(TypePaymentFailed, data, TRUE, TRUE, result),
               result)

CheckoutSessionCompleted(data, session_ok, retrieve_ok) ==
  LET result == handle_checkout_session_completed(subs, data, provider,
                                                  session_ok, retrieve_ok)
  IN  Dispatch(Delivered(TypeCheckoutCompleted, data, retrieve_ok, session_ok,
                         result),
               result)

\* The provider's subscription changes (renewal, dunning, a dashboard edit).
ProviderChange ==
  \E id \in SubIds : \E o \in LiveObjects(id) :
    /\ o # provider[id]
    /\ provider' = [provider EXCEPT ![id] = o]
    /\ last' = Step("provider")
    /\ UNCHANGED <<subs, now, procs, call, customers, storage>>

\* Time passes; the provider may still redeliver the event handled last.
Tick ==
  /\ now < MaxNow
  /\ now' = now + 1
  /\ UNCHANGED <<subs, provider, last, procs, call, customers, storage>>

CreatedEvents == UNION {EventObjects(id) \cup OtherCustomerObjects(id) : id \in SubIds}
UpdatedEvents == UNION {EventObjects(id) : id \in SubIds}
DeletedEvents == {[id |-> id] : id \in SubIds}

Next ==
  \/ \E data \in CreatedEvents : \E customer_ok \in BOOLEAN, retrieve_ok \in BOOLEAN :
       SubscriptionCreated(data, customer_ok, retrieve_ok)
  \/ \E data \in UpdatedEvents : \E retrieve_ok \in BOOLEAN :
       SubscriptionUpdated(data, retrieve_ok)
  \/ \E data \in DeletedEvents : SubscriptionDeleted(data)
  \/ \E data \in InvoiceObjects : \E retrieve_ok \in BOOLEAN :
       InvoicePaid(data, retrieve_ok)
  \/ \E data \in InvoiceObjects : InvoicePaymentFailed(data)
  \/ \E data \in SessionObjects : \E session_ok \in BOOLEAN, retrieve_ok \in BOOLEAN :
       CheckoutSessionCompleted(data, session_ok, retrieve_ok)
  \/ ProviderChange
  \/ Tick

Spec == Init /\ [][Next]_vars



\* ------------------------------------------- two deliveries that overlap
\* Two worker processes each handle one event for subscription sub_1.  A
\* handler reads the row (Subscription.objects.get), assigns to its in-memory
\* copy, calls the provider where it has to, and writes the whole row back
\* (subscription.save()); nothing locks the row in between.
Workers == {1, 2}

ConcurrentEvents ==
  {[type |-> TypeUpdated, data |-> o, retrieve_ok |-> ok] :
     o \in EventObjects("sub_1"), ok \in BOOLEAN}
  \cup {[type |-> TypeDeleted, data |-> [id |-> "sub_1"], retrieve_ok |-> TRUE]}
  \cup {[type |-> TypePaid, data |-> i, retrieve_ok |-> ok] :
          i \in {j \in InvoiceObjects : j.subscription = "sub_1"}, ok \in BOOLEAN}
  \cup {[type |-> TypePaymentFailed,
         data |-> [subscription |-> "sub_1", period_start |-> None,
                   period_end |-> None],
         retrieve_ok |-> TRUE]}

\* The subscription id an event's handler looks the row up by.
LookupId(event) ==
  IF event.type \in {TypePaid, TypePaymentFailed}
  THEN event.data.subscription ELSE event.data.id

\* The assignments the event's handler makes to its in-memory copy.
HandlerFields(row, event, prov, t) ==
  CASE event.type = TypeUpdated ->
         update_fields(row, event.data, prov, event.retrieve_ok)
    [] event.type = TypeDeleted -> deleted_fields(row, t)
    [] event.type = TypePaid ->
         paid_fields(row, event.data, prov, event.retrieve_ok)
    [] event.type = TypePaymentFailed -> failed_fields(row)

\* The table after the event's handler has run alone, start to end.
RunHandler(db, event, prov, t) ==
  CASE event.type = TypeUpdated ->
         handle_subscription_updated(db, event.data, prov, event.retrieve_ok).db
    [] event.type = TypeDeleted ->
         handle_subscription_deleted(db, event.data, t).db
    [] event.type = TypePaid ->
         handle_invoice_payment_succeeded(db, event.data, prov,
                                          event.retrieve_ok).db
    [] event.type = TypePaymentFailed ->
         handle_invoice_payment_failed(db, event.data).db

\* The rows a checkout followed by a reconcile leaves: the checkout row
\* reconciled with one of the provider's objects for sub_1.
ReconciledRows ==
  {update_fields(CheckoutRow, o, [id \in SubIds |-> o], TRUE) :
     o \in LiveObjects("sub_1")}

InitConcurrent ==
  /\ subs \in {(1 :> row) : row \in ReconciledRows}
  /\ provider \in [SubIds -> UNION {LiveObjects(id) : id \in SubIds}]
  /\ \A id \in SubIds : provider[id] \in LiveObjects(id)
  /\ now = MaxNow
  /\ last = Step("init")
  /\ call = NoCall
  /\ customers = NoCustomers
  /\ StorageEmpty
  /\ \E e1 \in ConcurrentEvents, e2 \in ConcurrentEvents :
       procs = [start |-> subs,
                run |-> [w \in Workers |->
                           [event |-> IF w = 1 THEN e1 ELSE e2,
                            pc |-> "received", loaded |-> <<>>]]]

\* Subscription.objects.get(stripe_subscription_id=...): the worker reads
\* the row, or returns when there is none.
Load(w) ==
  LET me == procs.run[w]
      found == BySubscriptionId(subs, LookupId(me.event))
  IN  /\ me.pc = "received"
      /\ procs' = [procs EXCEPT !.run[w] =
                     IF found = {} THEN [me EXCEPT !.pc = "done"]
                     ELSE [me EXCEPT !.pc = "loaded",
                                     !.loaded = <<CHOOSE u \in found : TRUE,
                                                  subs[CHOOSE u \in found : TRUE]>>]]
      /\ UNCHANGED <<subs, provider, now, last, call, customers, storage>>

\* subscription.save(): the worker writes every field of its copy.
Commit(w) ==
  LET me == procs.run[w]
      row == HandlerFields(me.loaded[2], me.event, provider, now)
  IN  /\ me.pc = "loaded"
      /\ subs' = Save(subs, me.loaded[1], row).db
      /\ procs' = [procs EXCEPT !.run[w].pc = "done"]
      /\ UNCHANGED <<provider, now, last, call, customers, storage>>

NextConcurrent == \E w \in Workers : Load(w) \/ Commit(w)

SpecConcurrent == InitConcurrent /\ [][NextConcurrent]_vars


\* ------------------------------------- the whole application, two users
\* A webhook request as stripe_webhook sees it: whether
\* settings.STRIPE_WEBHOOK_SECRET is set, the Stripe-Signature header
\* (absent, not matching the payload, matching), whether the body parses,
\* the event in the body, and how the provider calls made while handling
\* it fare (pre_ok: the handler's own call, retrieve_ok: the re-fetch).
NoHeader == "None"
BadSignature == "t=1,v1=bad"
GoodSignature == "t=1,v1=good"
TypePaymentSucceeded == "invoice.payment_succeeded"
\* An event type the provider sends that stripe_webhook has no branch for.
TypeUnrouted == "customer.subscription.paused"

WebhookRequest(secret, sig_header, payload_ok, type, data, pre_ok, retrieve_ok) ==
  [secret |-> secret, sig_header |-> sig_header, payload_ok |-> payload_ok,
   type |-> type, data |-> data, pre_ok |-> pre_ok, retrieve_ok |-> retrieve_ok]

\* The checks before the event is read, with a signature that does not
\* match let through.
verification_status_unsigned(request) ==
  IF ~request.secret THEN 400
  ELSE IF request.sig_header = NoHeader THEN 400
  ELSE IF ~request.payload_ok THEN 400
  ELSE 0

\* The status stripe_webhook returns before it reads the event, 0 when it
\* goes on: no secret, no header, construct_event raising ValueError (bad
\* payload) or SignatureVerificationError.
verification_status(request) ==
  IF ~request.secret THEN 400
  ELSE IF request.sig_header = NoHeader THEN 400
  ELSE IF ~request.payload_ok THEN 400
  ELSE IF request.sig_header # GoodSignature THEN 400
  ELSE 0

\* The if/elif chain of stripe_webhook with an else branch that treats any
\* other event as customer.subscription.updated.
route_default_updated(db, request, prov, t) ==
  IF request.type = TypeCreated
  THEN handle_subscription_created(db, request.data, prov, request.pre_ok,
                                   request.retrieve_ok)
  ELSE IF request.type = TypeDeleted
  THEN handle_subscription_deleted(db, request.data, t)
  ELSE IF request.type \in {TypePaid, TypePaymentSucceeded}
  THEN handle_invoice_payment_succeeded(db, request.data, prov, request.retrieve_ok)
  ELSE IF request.type = TypePaymentFailed
  THEN handle_invoice_payment_failed(db, request.data)
  ELSE IF request.type = TypeCheckoutCompleted
  THEN handle_checkout_session_completed(db, request.data, prov, request.pre_ok,
                                         request.retrieve_ok)
  ELSE handle_subscription_updated(db, request.data, prov, request.retrieve_ok)

\* The if/elif chain of stripe_webhook: the handler's result, [db, raised].
route(db, request, prov, t) ==
  IF request.type = TypeCreated
  THEN handle_subscription_created(db, request.data, prov, request.pre_ok,
                                   request.retrieve_ok)
  ELSE IF request.type = TypeUpdated
  THEN handle_subscription_updated(db, request.data, prov, request.retrieve_ok)
  ELSE IF request.type = TypeDeleted
  THEN handle_subscription_deleted(db, request.data, t)
  ELSE IF request.type \in {TypePaid, TypePaymentSucceeded}
  THEN handle_invoice_payment_succeeded(db, request.data, prov, request.retrieve_ok)
  ELSE IF request.type = TypePaymentFailed
  THEN handle_invoice_payment_failed(db, request.data)
  ELSE IF request.type = TypeCheckoutCompleted
  THEN handle_checkout_session_completed(db, request.data, prov, request.pre_ok,
                                         request.retrieve_ok)
  ELSE Returned(db)

\* stripe_webhook(request): the table after it and the response status.
stripe_webhook(db, request, prov, t) ==
  IF verification_status(request) # 0
  THEN [db |-> db, resp |-> verification_status(request)]
  ELSE [db |-> route(db, request, prov, t).db,
        resp |-> IF route(db, request, prov, t).raised THEN 500 ELSE 200]

\* SubscriptionCheckoutView.post for user u, Stripe configured.  create_ok:
\* stripe.Customer.create returns.  Every exception is caught and the user
\* is redirected; the result is the table.
checkout_post(db, u, create_ok) ==
  LET has_row == u \in DOMAIN db
      customer_id == CustomerOf(u)
  IN  IF has_row /\ db[u].stripe_customer_id # NoId THEN db
      ELSE IF ~create_ok THEN db
      ELSE IF has_row
      THEN Save(db, u, [db[u] EXCEPT !.stripe_customer_id = customer_id]).db
      ELSE Save(db, u, NewSubscription(customer_id, NoId, STATUS_INCOMPLETE)).db

\* What stripe.Subscription.modify(id, cancel_at_period_end=True) leaves at
\* the provider when it succeeds.
Modified(prov, id) == [prov EXCEPT ![id].cancel_at_period_end = TRUE]

\* SubscriptionCancelView.post that writes the local flag before it asks
\* the provider.
cancel_post_local_first(db, prov, u, modify_ok) ==
  IF u \notin DOMAIN db
  THEN [db |-> db, prov |-> prov, called |-> FALSE, resp |-> 404]
  ELSE [db |-> Save(db, u, [db[u] EXCEPT !.cancel_at_period_end = TRUE]).db,
        prov |-> IF modify_ok /\ db[u].stripe_subscription_id # NoId
                 THEN Modified(prov, db[u].stripe_subscription_id) ELSE prov,
        called |-> db[u].stripe_subscription_id # NoId,
        resp |-> 302]

\* SubscriptionCancelView.post for user u.  modify_ok:
\* stripe.Subscription.modify returns.  Result: the table, the provider's
\* subscriptions, whether modify was called, the response status.
cancel_post(db, prov, u, modify_ok) ==
  IF u \notin DOMAIN db
  THEN [db |-> db, prov |-> prov, called |-> FALSE, resp |-> 404]
  ELSE IF db[u].stripe_subscription_id = NoId
  THEN [db |-> db, prov |-> prov, called |-> FALSE, resp |-> 302]
  ELSE IF ~modify_ok
  THEN [db |-> db, prov |-> prov, called |-> TRUE, resp |-> 302]
  ELSE LET id == db[u].stripe_subscription_id
           stripe_subscription == Modified(prov, id)[id]
       IN  [db |-> Save(db, u, [db[u] EXCEPT
                                  !.cancel_at_period_end = TRUE,
                                  !.status = stripe_subscription.status]).db,
            prov |-> Modified(prov, id),
            called |-> TRUE, resp |-> 302]

\* The command's reads of stripe_subscription.current_period_start and
\* .current_period_end for its report: a StripeObject raises AttributeError
\* for a key the object does not carry.  top_level_keys: the object carries
\* both keys, null where the model has None.
reads_period(object, top_level_keys) ==
  \/ top_level_keys
  \/ object.current_period_start # None /\ object.current_period_end # None

\* Command.handle of sync_subscription for user u, Stripe configured.
\* fetch_ok: the command's stripe.Subscription.retrieve returns;
\* retrieve_ok: the re-fetch inside reconcile returns.  Every failure ends
\* in CommandError.  Result: the table.
sync_subscription(db, prov, u, fetch_ok, top_level_keys, retrieve_ok) ==
  IF u \notin DOMAIN db THEN db
  ELSE IF db[u].stripe_subscription_id = NoId THEN db
  ELSE IF ~fetch_ok THEN db
  ELSE IF ~reads_period(prov[db[u].stripe_subscription_id], top_level_keys) THEN db
  ELSE update_subscription_from_stripe(
         db, u, db[u], prov[db[u].stripe_subscription_id], prov, retrieve_ok).db

\* The provider's subscription `id` as an event for customer c embeds it.
Snapshot(id, c) == [provider[id] EXCEPT !.customer = c]

AppCustIds == {CustomerOf(u) : u \in Users}

\* The events the provider sends about the subscriptions it holds, one per
\* event type and subscription id, with the provider calls made while
\* handling them failing or not.
AppEvents ==
  {WebhookRequest(TRUE, GoodSignature, TRUE, TypeCreated, Snapshot(id, c), ok, TRUE) :
     id \in SubIds, c \in AppCustIds, ok \in BOOLEAN}
  \cup {WebhookRequest(TRUE, GoodSignature, TRUE, TypeCreated,
                       Snapshot("sub_2", c), TRUE, TRUE) :
          c \in {SecondCustomer, "cus_B"}}
  \cup {WebhookRequest(TRUE, GoodSignature, TRUE, type, Snapshot(id, "cus_A"),
                       TRUE, ok) :
          type \in {TypeUpdated, TypeUnrouted}, id \in SubIds, ok \in BOOLEAN}
  \cup {WebhookRequest(TRUE, GoodSignature, TRUE, TypeDeleted, [id |-> id],
                       TRUE, TRUE) : id \in SubIds}
  \cup {WebhookRequest(TRUE, GoodSignature, TRUE, type,
                       [subscription |-> id, period_start |-> None,
                        period_end |-> None], TRUE, TRUE) :
          type \in {TypePaid, TypePaymentSucceeded, TypePaymentFailed},
          id \in SubIds}
  \cup {WebhookRequest(TRUE, GoodSignature, TRUE, TypeCheckoutCompleted,
                       [subscription |-> id, customer |-> c], ok, TRUE) :
          id \in SubIds, c \in AppCustIds, ok \in BOOLEAN}

\* Requests that do not pass the checks: one of the four defects, carrying
\* an event that would change a row if it were handled.
BadRequests ==
  {r \in {WebhookRequest(secret, sig_header, payload_ok, TypeDeleted,
                          [id |-> id], TRUE, TRUE) :
             secret \in BOOLEAN,
             sig_header \in {NoHeader, BadSignature, GoodSignature},
             payload_ok \in BOOLEAN, id \in SubIds} :
     ~(r.secret /\ r.sig_header = GoodSignature /\ r.payload_ok)}

InitApp ==
  /\ subs = <<>>
  /\ provider \in [SubIds -> UNION {LiveObjects(id) : id \in SubIds}]
  /\ \A id \in SubIds : provider[id] \in LiveObjects(id)
  /\ now = 1
  /\ last = [op |-> "init"]
  /\ procs = NoProcs
  /\ call = NoCall
  /\ customers = NoCustomers
  /\ StorageEmpty

\* POST /webhook
Webhook(request) ==
  LET result == stripe_webhook(subs, request, provider, now)
  IN  /\ subs' = result.db
      /\ last' = [op |-> "webhook", request |-> request, resp |-> result.resp]
      /\ UNCHANGED <<provider, now, procs, call, customers, storage>>

\* POST of the checkout page by user u
CheckoutPost(u, create_ok) ==
  /\ subs' = checkout_post(subs, u, create_ok)
  /\ last' = [op |-> "checkout", user |-> u]
  /\ UNCHANGED <<provider, now, procs, call, customers, storage>>

\* POST of the cancel page by user u
CancelPost(u, modify_ok) ==
  LET result == cancel_post(subs, provider, u, modify_ok)
  IN  /\ subs' = result.db
      /\ provider' = result.prov
      /\ last' = [op |-> "cancel", user |-> u, modify_ok |-> modify_ok,
                  called |-> result.called, resp |-> result.resp]
      /\ UNCHANGED <<now, procs, call, customers, storage>>

\* manage.py sync_subscription <email of user u>
SyncCommand(u, fetch_ok, top_level_keys, retrieve_ok) ==
  /\ subs' = sync_subscription(subs, provider, u, fetch_ok, top_level_keys,
                                retrieve_ok)
  /\ last' = [op |-> "sync", user |-> u]
  /\ UNCHANGED <<provider, now, procs, call, customers, storage>>

NextApp ==
  \/ \E request \in AppEvents : Webhook(request)
  \/ \E request \in BadRequests : Webhook(request)
  \/ \E u \in Users, create_ok \in BOOLEAN : CheckoutPost(u, create_ok)
  \/ \E u \in Users, modify_ok \in BOOLEAN : CancelPost(u, modify_ok)
  \/ \E u \in Users, fetch_ok \in BOOLEAN, top_level_keys \in BOOLEAN,
        retrieve_ok \in BOOLEAN :
       SyncCommand(u, fetch_ok, top_level_keys, retrieve_ok)

SpecApp == InitApp /\ [][NextApp]_vars


\* ------------------------------- the user-facing operations and the CLI
\* settings: whether STRIPE_SECRET_KEY is set, and SUBSCRIPTION_PRICE_ID
\* (unset, a price id, a product id).
NoPrice == "None"
PriceId == "price_1"
ProductId == "prod_1"
SettingsChoices == [secret_key : BOOLEAN, price_id : {NoPrice, PriceId, ProductId}]

CallCustomerCreate == "stripe.Customer.create"
CallSessionCreate == "stripe.checkout.Session.create"
MessageError == "error"
RedirectCheckout == "redirect to checkout_session.url"

\* SubscriptionCheckoutView.post that asks the provider for a customer on
\* every request, whether or not the row has one.
checkout_view_post_always_create(db, settings, u, create_ok, session_ok) ==
  IF ~settings.secret_key \/ settings.price_id = NoPrice
  THEN [db |-> db, message |-> MessageError, calls |-> {}]
  ELSE IF ~create_ok
  THEN [db |-> db, message |-> MessageError, calls |-> {CallCustomerCreate}]
  ELSE [db |-> checkout_post(db, u, create_ok),
        message |-> IF session_ok /\ settings.price_id = PriceId
                    THEN RedirectCheckout ELSE MessageError,
        calls |-> {CallCustomerCreate, CallSessionCreate}]

\* What SubscriptionCheckoutView.post answers with and which provider calls
\* it makes, next to the table it leaves (checkout_post).  session_ok:
\* stripe.checkout.Session.create returns when given a price id; given a
\* product id it raises InvalidRequestError.
checkout_view_post(db, settings, u, create_ok, session_ok) ==
  LET has_customer == u \in DOMAIN db /\ db[u].stripe_customer_id # NoId
      row == IF u \in DOMAIN db
             THEN [db[u] EXCEPT !.stripe_customer_id = CustomerOf(u)]
             ELSE NewSubscription(CustomerOf(u), NoId, STATUS_INCOMPLETE)
  IN  IF ~settings.secret_key \/ settings.price_id = NoPrice
      THEN [db |-> db, message |-> MessageError, calls |-> {}]
      ELSE IF ~has_customer /\ ~create_ok
      THEN [db |-> db, message |-> MessageError, calls |-> {CallCustomerCreate}]
      ELSE IF ~has_customer /\ UniqueViolation(db, u, row)
      THEN [db |-> db, message |-> MessageError, calls |-> {CallCustomerCreate}]
      ELSE [db |-> checkout_post(db, u, create_ok),
            message |-> IF session_ok /\ settings.price_id = PriceId
                        THEN RedirectCheckout ELSE MessageError,
            calls |-> (IF has_customer THEN {} ELSE {CallCustomerCreate})
                      \cup {CallSessionCreate}]

\* The customers stripe.Customer.create has returned per user, after a
\* checkout request of u that made the given calls.
CustomersAfter(count, u, calls, create_ok) ==
  [count EXCEPT ![u] = IF CallCustomerCreate \in calls /\ create_ok
                       THEN @ + 1 ELSE @]

OutcomeError == "CommandError"
OutcomeSuccess == "Successfully synced subscription"

\* Command.handle that goes on to the provider without STRIPE_SECRET_KEY.
sync_handle_unconfigured(db, prov, secret_key, u, fetch_ok, top_level_keys, retrieve_ok) ==
  IF u = NoUser \/ u \notin DOMAIN db
  THEN [db |-> db, outcome |-> OutcomeError, called |-> FALSE]
  ELSE IF db[u].stripe_subscription_id = NoId
  THEN [db |-> db, outcome |-> OutcomeError, called |-> FALSE]
  ELSE [db |-> sync_subscription(db, prov, u, fetch_ok, top_level_keys, retrieve_ok),
        outcome |-> IF fetch_ok THEN OutcomeSuccess ELSE OutcomeError,
        called |-> TRUE]

\* Command.handle of sync_subscription: the table it leaves
\* (sync_subscription), its outcome and whether it called the provider.
\* u is the user with the given email, NoUser when there is none.
sync_handle(db, prov, secret_key, u, fetch_ok, top_level_keys, retrieve_ok) ==
  IF ~secret_key THEN [db |-> db, outcome |-> OutcomeError, called |-> FALSE]
  ELSE IF u = NoUser THEN [db |-> db, outcome |-> OutcomeError, called |-> FALSE]
  ELSE IF u \notin DOMAIN db
  THEN [db |-> db, outcome |-> OutcomeError, called |-> FALSE]
  ELSE IF db[u].stripe_subscription_id = NoId
  THEN [db |-> db, outcome |-> OutcomeError, called |-> FALSE]
  ELSE IF ~fetch_ok THEN [db |-> db, outcome |-> OutcomeError, called |-> TRUE]
  ELSE IF ~reads_period(prov[db[u].stripe_subscription_id], top_level_keys)
  THEN [db |-> db, outcome |-> OutcomeError, called |-> TRUE]
  ELSE [db |-> sync_subscription(db, prov, u, fetch_ok, top_level_keys, retrieve_ok),
        outcome |-> IF update_subscription_from_stripe(
                         db, u, db[u], prov[db[u].stripe_subscription_id],
                         prov, retrieve_ok).raised
                    THEN OutcomeError ELSE OutcomeSuccess,
        called |-> TRUE]

\* CustomUser.has_active_subscription at clock reading t.
has_active_subscription(db, u, is_staff, is_superuser, t) ==
  IF is_superuser \/ is_staff THEN TRUE
  ELSE IF u \in DOMAIN db THEN is_active(db[u], t)
  ELSE FALSE

GateLogin == "handle_no_permission"
GateGranted == "super().dispatch"
GateRedirect == "redirect subscription_required"

\* The gate without the staff and superuser bypass.
dispatch_subscribers_only(db, u, authenticated, is_staff, is_superuser, t) ==
  IF ~authenticated THEN GateLogin
  ELSE IF u \in DOMAIN db /\ is_active(db[u], t) THEN GateGranted
  ELSE GateRedirect

\* SubscriptionRequiredMixin.dispatch for user u.
dispatch(db, u, authenticated, is_staff, is_superuser, t) ==
  IF ~authenticated THEN GateLogin
  ELSE IF is_staff \/ is_superuser THEN GateGranted
  ELSE IF ~has_active_subscription(db, u, is_staff, is_superuser, t)
  THEN GateRedirect
  ELSE GateGranted

\* The table before the requests below: empty, the row a checkout leaves,
\* or that row reconciled with a provider object.
InitViews ==
  /\ subs \in {<<>>} \cup {(1 :> row) : row \in {CheckoutRow} \cup ReconciledRows}
  /\ provider \in [SubIds -> UNION {LiveObjects(id) : id \in SubIds}]
  /\ \A id \in SubIds : provider[id] \in LiveObjects(id)
  /\ now = 1
  /\ last = [op |-> "init"]
  /\ procs = NoProcs
  /\ call = NoCall
  /\ customers = NoCustomers
  /\ StorageEmpty

\* POST of the checkout page by user u under the given settings
CheckoutRequest(u, settings, create_ok, session_ok) ==
  LET result == checkout_view_post(subs, settings, u, create_ok, session_ok)
  IN  /\ subs' = result.db
      /\ customers[u] < MaxCustomers
      /\ customers' = CustomersAfter(customers, u, result.calls, create_ok)
      /\ last' = [op |-> "checkout", user |-> u, settings |-> settings,
                  create_ok |-> create_ok, session_ok |-> session_ok,
                  message |-> result.message, calls |-> result.calls]
      /\ UNCHANGED <<provider, now, procs, call, storage>>

\* manage.py sync_subscription <email>, u the user with that email
SyncRun(secret_key, u, fetch_ok, top_level_keys, retrieve_ok) ==
  LET result == sync_handle(subs, provider, secret_key, u, fetch_ok,
                            top_level_keys, retrieve_ok)
  IN  /\ subs' = result.db
      /\ last' = [op |-> "sync", user |-> u, secret_key |-> secret_key,
                  fetch_ok |-> fetch_ok, top_level_keys |-> top_level_keys,
                  outcome |-> result.outcome,
                  called |-> result.called]
      /\ UNCHANGED <<provider, now, procs, call, customers, storage>>

\* A request by user u to a view behind SubscriptionRequiredMixin
GateRequest(u, authenticated, is_staff, is_superuser) ==
  /\ last' = [op |-> "gate", user |-> u, authenticated |-> authenticated,
              is_staff |-> is_staff, is_superuser |-> is_superuser,
              outcome |-> dispatch(subs, u, authenticated, is_staff,
                                   is_superuser, now)]
  /\ UNCHANGED <<subs, provider, now, procs, call, customers, storage>>

\* The verified customer.subscription.deleted deliveries.
DeletedRequests ==
  {WebhookRequest(TRUE, GoodSignature, TRUE, TypeDeleted, data, TRUE, TRUE) :
     data \in DeletedEvents}

NextViews ==
  \/ \E u \in Users, settings \in SettingsChoices, create_ok \in BOOLEAN,
        session_ok \in BOOLEAN :
       CheckoutRequest(u, settings, create_ok, session_ok)
  \/ \E u \in Users, modify_ok \in BOOLEAN : CancelPost(u, modify_ok)
  \/ \E secret_key \in BOOLEAN, u \in Users \cup {NoUser}, fetch_ok \in BOOLEAN,
        top_level_keys \in BOOLEAN :
       SyncRun(secret_key, u, fetch_ok, top_level_keys, TRUE)
  \/ \E u \in Users, authenticated \in BOOLEAN, is_staff \in BOOLEAN,
        is_superuser \in BOOLEAN :
       GateRequest(u, authenticated, is_staff, is_superuser)
  \/ \E request \in DeletedRequests : Webhook(request)
  \/ Tick

SpecViews == InitViews /\ [][NextViews]_vars

\* ------------------------------------- units, tenants and tenancies
\* storage/models.py: a Property belongs to a user, a Unit to a Property, a
\* Tenant to a user, and a Tenancies row links a Unit and a Tenant.  No view
\* changes Property.user: properties 1 and 2 are user 1's, property 3 is
\* user 2's.
Properties == {1, 2, 3}
PropertyUser(property) == IF property = 3 THEN 2 ELSE 1

UnitIds == {1, 2}
STATUS_VACANT == "vacant"
STATUS_OCCUPIED == "occupied"
UnitStatuses == {STATUS_VACANT, STATUS_OCCUPIED}

\* Most Tenant rows and most Tenancies rows at a time.
MaxTenants == 3
MaxTenancies == 2
\* start_date values of a tenancy
StartDates == {1, 2}

\* The three tables as one value.
Tables(us, tn, tc) == [units |-> us, tenants |-> tn, tenancies |-> tc]

\* What a view answers: a redirect after a change, the page again with the
\* form's errors, or 404.
Redirected(st) == [st |-> st, answer |-> "redirect"]
Rendered(st) == [st |-> st, answer |-> "form errors"]
NotFound(st) == [st |-> st, answer |-> "404"]

\* The user a unit belongs to: unit.property.user
UnitUser(us, unit_id) == PropertyUser(us[unit_id].property)

\* get_object_or_404(Unit.objects.filter(property__user=request.user),
\* id=unit_id) finds the unit.
unit_found(us, user, unit_id) ==
  unit_id \in DOMAIN us /\ UnitUser(us, unit_id) = user

\* UnitForm's property choices for a user
UnitForm_property_queryset(user) == {q \in Properties : PropertyUser(q) = user}

\* TenancyForm that offers every tenant (its branch for user=None).
TenancyForm_tenant_queryset_all(tn, user) == DOMAIN tn

\* TenancyForm's tenant choices for a user
TenancyForm_tenant_queryset(tn, user) == {t \in DOMAIN tn : tn[t].user = user}

\* The id the database gives the next Tenant row / Tenancies row.
NextTenantId(tn) == Len(tn) + 1
NextTenancyId(tc) ==
  CHOOSE i \in 1..(MaxTenancies + 1) :
    /\ i \notin {y.id : y \in tc}
    /\ \A j \in 1..(i - 1) : j \in {y.id : y \in tc}

\* Tenancies.objects.filter(unit=unit).order_by("-start_date").first(): a
\* tenancy of the unit with the latest start date; which one among equal
\* dates is the database's choice.
current_tenancies(tc, unit_id) ==
  {y \in tc : /\ y.unit = unit_id
              /\ \A z \in tc : z.unit = unit_id => z.start_date <= y.start_date}

\* UnitEditView.post.  property, status: the posted choices; valid: the
\* other posted fields pass the form's validation.
UnitEditView_post(st, user, unit_id, property, status, valid) ==
  IF ~unit_found(st.units, user, unit_id) THEN NotFound(st)
  ELSE IF ~valid \/ property \notin UnitForm_property_queryset(user)
  THEN Rendered(st)
  ELSE Redirected([st EXCEPT !.units[unit_id] =
                     [property |-> property, status |-> status]])

\* UnitAssignTenantView.post.  tenant: the posted tenant id.
UnitAssignTenantView_post(st, user, unit_id, tenant, start_date, valid) ==
  IF ~unit_found(st.units, user, unit_id) THEN NotFound(st)
  ELSE IF ~valid \/ tenant \notin TenancyForm_tenant_queryset(st.tenants, user)
  THEN Rendered(st)
  ELSE Redirected([st EXCEPT
         !.tenancies = @ \cup {[id |-> NextTenancyId(st.tenancies),
                                unit |-> unit_id, tenant |-> tenant,
                                start_date |-> start_date]},
         !.units[unit_id].status = STATUS_OCCUPIED])

\* UnitCreateAndAssignTenantView.post
UnitCreateAndAssignTenantView_post(st, user, unit_id, start_date, valid) ==
  IF ~unit_found(st.units, user, unit_id) THEN NotFound(st)
  ELSE IF ~valid THEN Rendered(st)
  ELSE Redirected([st EXCEPT
         !.tenants = Append(@, [user |-> user]),
         !.tenancies = @ \cup {[id |-> NextTenancyId(st.tenancies),
                                unit |-> unit_id,
                                tenant |-> NextTenantId(st.tenants),
                                start_date |-> start_date]},
         !.units[unit_id].status = STATUS_OCCUPIED])

\* UnitRemoveTenantView.post.  current_tenancy: the row first() returns, an
\* element of current_tenancies when the unit has a tenancy.
UnitRemoveTenantView_post(st, user, unit_id, current_tenancy) ==
  IF ~unit_found(st.units, user, unit_id) THEN NotFound(st)
  ELSE IF current_tenancies(st.tenancies, unit_id) = {} THEN Redirected(st)
  ELSE Redirected([st EXCEPT
         !.tenancies = @ \ {current_tenancy},
         !.units[unit_id].status = STATUS_VACANT])

\* Each user has a property with a vacant unit and one tenant; user 1 has a
\* second property.
InitStorage ==
  /\ subs = <<>>
  /\ provider = [id \in SubIds |->
                   SubscriptionObject(id, "cus_A", STATUS_ACTIVE, FALSE, None, 1, 2,
                                      NoItems)]
  /\ now = 1
  /\ last = [op |-> "init"]
  /\ procs = NoProcs
  /\ call = NoCall
  /\ customers = NoCustomers
  /\ units = <<[property |-> 1, status |-> STATUS_VACANT],
               [property |-> 3, status |-> STATUS_VACANT]>>
  /\ tenants = <<[user |-> 1], [user |-> 2]>>
  /\ tenancies = {}

\* One request to a unit view: the tables become what the view leaves.
UnitRequest(op, user, unit_id, result) ==
  /\ units' = result.st.units
  /\ tenants' = result.st.tenants
  /\ tenancies' = result.st.tenancies
  /\ last' = [op |-> op, user |-> user, unit |-> unit_id,
              answer |-> result.answer]
  /\ UNCHANGED <<subs, provider, now, procs, call, customers>>

UnitEdit(user, unit_id, property, status, valid) ==
  UnitRequest("edit", user, unit_id,
              UnitEditView_post(Tables(units, tenants, tenancies), user, unit_id,
                                property, status, valid))

\* The bounds stop a request only when it would add a row.
UnitAssignTenant(user, unit_id, tenant, start_date, valid) ==
  LET result == UnitAssignTenantView_post(Tables(units, tenants, tenancies),
                                          user, unit_id, tenant, start_date,
                                          valid)
  IN  /\ result.answer = "redirect" => Cardinality(tenancies) < MaxTenancies
      /\ UnitRequest("assign", user, unit_id, result)

UnitCreateAndAssignTenant(user, unit_id, start_date, valid) ==
  LET result == UnitCreateAndAssignTenantView_post(
                  Tables(units, tenants, tenancies), user, unit_id, start_date,
                  valid)
  IN  /\ result.answer = "redirect"
           => Cardinality(tenancies) < MaxTenancies /\ Len(tenants) < MaxTenants
      /\ UnitRequest("create and assign", user, unit_id, result)

UnitRemoveTenant(user, unit_id) ==
  \E current_tenancy \in current_tenancies(tenancies, unit_id) \cup {[id |-> 0]} :
    /\ current_tenancy.id = 0 => current_tenancies(tenancies, unit_id) = {}
    /\ UnitRequest("remove", user, unit_id,
                   UnitRemoveTenantView_post(Tables(units, tenants, tenancies),
                                             user, unit_id, current_tenancy))

NextStorage ==
  \/ \E user \in Users, unit_id \in UnitIds, property \in Properties,
        status \in UnitStatuses, valid \in BOOLEAN :
       UnitEdit(user, unit_id, property, status, valid)
  \/ \E user \in Users, unit_id \in UnitIds, tenant \in 1..MaxTenants,
        start_date \in StartDates, valid \in BOOLEAN :
       UnitAssignTenant(user, unit_id, tenant, start_date, valid)
  \/ \E user \in Users, unit_id \in UnitIds, start_date \in StartDates,
        valid \in BOOLEAN :
       UnitCreateAndAssignTenant(user, unit_id, start_date, valid)
  \/ \E user \in Users, unit_id \in UnitIds : UnitRemoveTenant(user, unit_id)

SpecStorage == InitStorage /\ [][NextStorage]_vars

\* ---------------------------------------------- the pure functions alone
\* One call of the extractor, the status mapper or is_active on any input.
CallExtract ==
  \E sub_dict \in PeriodPayloads :
    /\ call = NoCall
    /\ call' = [fn |-> "extract", arg |-> sub_dict,
                res |-> _extract_period_dates_from_subscription(sub_dict)]
    /\ UNCHANGED <<subs, provider, now, last, procs, customers, storage>>

CallMapStatus ==
  \E stripe_status \in ProviderStatuses :
    /\ call = NoCall
    /\ call' = [fn |-> "map", arg |-> stripe_status,
                res |-> map_stripe_status_to_model(stripe_status)]
    /\ UNCHANGED <<subs, provider, now, last, procs, customers, storage>>

CallIsActive ==
  \E status \in STATUS_CHOICES, end \in OptTs, t \in Ts :
    LET sub == [NewSubscription("cus_A", "sub_1", status)
                  EXCEPT !.current_period_end = end]
    IN  /\ call = NoCall
        /\ call' = [fn |-> "is_active", arg |-> [sub |-> sub, t |-> t],
                    res |-> is_active(sub, t)]
        /\ UNCHANGED <<subs, provider, now, last, procs, customers, storage>>

InitPure ==
  /\ subs = <<>>
  /\ provider = [id \in SubIds |->
                   SubscriptionObject(id, "cus_A", STATUS_ACTIVE, FALSE, None, 1, 2,
                                      NoItems)]
  /\ now = 1
  /\ last = Step("init")
  /\ procs = NoProcs
  /\ call = NoCall
  /\ customers = NoCustomers
  /\ StorageEmpty

NextPure == CallExtract \/ CallMapStatus \/ CallIsActive

SpecPure == InitPure /\ [][NextPure]_vars


\* ================================================================ claims
\* The row holding external subscription id `id` (there is one).
RowOf(id) == subs[CHOOSE u \in BySubscriptionId(subs, id) : TRUE]

\* The step is the handling of a delivered event of the given type (the
\* event is then last'); the clock and the provider stand still meanwhile.
IsDelivery(type) ==
  /\ last'.type = type
  /\ now' = now
  /\ provider' = provider

EventTypes ==
  {TypeCreated, TypeUpdated, TypeDeleted, TypePaid, TypePaymentFailed,
   TypeCheckoutCompleted}

\* C6: handling a customer.subscription.deleted event whose id matches a
\* local Subscription leaves that row with status canceled,
\* cancel_at_period_end false and current_period_end equal to the current
\* time, whatever it held before, and not active at that time.
C6_DeletedHardStop ==
  [][(IsDelivery(TypeDeleted) /\ BySubscriptionId(subs, last'.data.id) # {})
     => LET row == subs'[CHOOSE u \in BySubscriptionId(subs, last'.data.id) : TRUE]
        IN  /\ row.status = STATUS_CANCELED
            /\ row.cancel_at_period_end = FALSE
            /\ row.current_period_end = now'
            /\ ~is_active(row, now')]_vars

\* A deleted event has hit a row that has a billing period, after the clock
\* has advanced: the period now ends at the clock reading.
C6_Witness ==
  /\ last.type = TypeDeleted
  /\ BySubscriptionId(subs, last.data.id) # {}
  /\ RowOf(last.data.id).status = STATUS_CANCELED
  /\ RowOf(last.data.id).current_period_start # None
  /\ RowOf(last.data.id).current_period_end = now
  /\ now > 1

\* The top-level period fields and the first line item of an extractor call.
TopStart == call.arg.current_period_start
TopEnd == call.arg.current_period_end
FirstItem == call.arg.items[1]

\* C7: when the top-level current_period_start/current_period_end and the
\* first line item's period fields (its current_period_* or its nested
\* period) are all populated and differ, the extractor returns the
\* top-level start and end.
C7_BothPopulated ==
  /\ call.fn = "extract"
  /\ TopStart # None /\ TopEnd # None
  /\ call.arg.items # <<>>
  /\ \/ /\ FirstItem.current_period_start \notin {None, TopStart}
        /\ FirstItem.current_period_end \notin {None, TopEnd}
     \/ /\ FirstItem.period.start \notin {None, TopStart}
        /\ FirstItem.period.end \notin {None, TopEnd}

C7_TopLevelWins ==
  C7_BothPopulated => call.res = <<TopStart, TopEnd>>

C7_Witness == C7_BothPopulated /\ call.res = <<TopStart, TopEnd>>

\* The first value of a sequence that is not None, None if there is none.
RECURSIVE FirstNonNull(_)
FirstNonNull(values) ==
  IF values = <<>> THEN None
  ELSE IF Head(values) # None THEN Head(values)
  ELSE FirstNonNull(Tail(values))

\* C8: for start and for end separately the extractor returns the first
\* non-null of the top-level field, the first item's current_period_* field
\* and the first item's nested period field; without line items only the
\* top-level field counts; with nothing anywhere the result is None.
C8_FallbackChain ==
  call.fn = "extract" =>
    IF call.arg.items = <<>>
    THEN call.res = <<TopStart, TopEnd>>
    ELSE /\ call.res[1] = FirstNonNull(<<TopStart, FirstItem.current_period_start,
                                         FirstItem.period.start>>)
         /\ call.res[2] = FirstNonNull(<<TopEnd, FirstItem.current_period_end,
                                         FirstItem.period.end>>)

\* The extractor has returned the nested period of an item that is all a
\* payload without top-level fields carries.
C8_Witness ==
  /\ call.fn = "extract"
  /\ TopStart = None /\ TopEnd = None
  /\ call.arg.items # <<>>
  /\ FirstItem.current_period_start = None /\ FirstItem.current_period_end = None
  /\ FirstItem.period.start # None /\ FirstItem.period.end # None
  /\ call.res = <<FirstItem.period.start, FirstItem.period.end>>

\* C9: the status mapper maps each of the seven known provider statuses to
\* the local status of the same name and anything else to incomplete.
C9_StatusMappingTotal ==
  call.fn = "map" =>
    /\ call.res \in STATUS_CHOICES
    /\ call.arg \in STATUS_CHOICES => call.res = call.arg
    /\ call.arg \notin STATUS_CHOICES => call.res = STATUS_INCOMPLETE

C9_Witness ==
  call.fn = "map" /\ call.arg = "paused" /\ call.res = STATUS_INCOMPLETE

\* C10: is_active() is true exactly when the status is active or trialing
\* and current_period_end is absent or strictly after the current time.
C10_ActivePredicate ==
  call.fn = "is_active" =>
    (call.res <=>
       /\ call.arg.sub.status \in {STATUS_ACTIVE, STATUS_TRIALING}
       /\ \/ call.arg.sub.current_period_end = None
          \/ call.arg.t < call.arg.sub.current_period_end)

\* An active subscription whose period ends at the very clock reading is
\* found not active.
C10_Witness ==
  /\ call.fn = "is_active"
  /\ call.arg.sub.status = STATUS_ACTIVE
  /\ call.arg.sub.current_period_end = call.arg.t
  /\ call.res = FALSE



\* The reconciled fields of a row agree with a provider subscription object:
\* status, cancel flag and trial end as the object has them, the period as
\* the extractor reads it from the object.
AgreesWith(row, object) ==
  /\ row.status = map_stripe_status_to_model(object.status)
  /\ row.cancel_at_period_end = object.cancel_at_period_end
  /\ row.trial_end = object.trial_end
  /\ row.current_period_start = _extract_period_dates_from_subscription(object)[1]
  /\ row.current_period_end = _extract_period_dates_from_subscription(object)[2]

\* C1: when an updated event whose snapshot is the provider's live object
\* has been handled and a second updated event for the same subscription id
\* with a stale snapshot is handled next, both re-fetches succeeding and the
\* provider's object unchanged, the row then equals the provider's live
\* object in status, cancel_at_period_end, trial_end and billing period.
C1_OutOfOrderConverges ==
  [][(/\ last.type = TypeUpdated /\ last.retrieve_ok /\ last.resp = 200
      /\ last.data = provider[last.data.id]
      /\ IsDelivery(TypeUpdated) /\ last'.retrieve_ok
      /\ last'.data.id = last.data.id
      /\ last'.data # last.data
      /\ BySubscriptionId(subs, last.data.id) # {})
     => AgreesWith(subs'[CHOOSE u \in BySubscriptionId(subs, last.data.id) : TRUE],
                   provider'[last.data.id])]_vars

\* The step handles the event handled last once more: same type, same
\* object, every provider call returning or failing as it did, after a
\* success response.
Redelivery ==
  /\ last.type \in EventTypes
  /\ IsDelivery(last.type)
  /\ last'.again

PeriodSource(data, retrieve_ok) ==
  IF retrieve_ok THEN _extract_period_dates_from_subscription(provider[data.id])
  ELSE <<data.current_period_start, data.current_period_end>>

\* Row u keeps each optional timestamp whose source value is absent.
KeepsAbsent(u, data, retrieve_ok) ==
  /\ PeriodSource(data, retrieve_ok)[1] = None
       => subs'[u].current_period_start = subs[u].current_period_start
  /\ PeriodSource(data, retrieve_ok)[2] = None
       => subs'[u].current_period_end = subs[u].current_period_end
  /\ data.trial_end = None => subs'[u].trial_end = subs[u].trial_end

\* C4: every reconcile (of an updated event, of a created event for a known
\* customer, of a checkout completed event whose subscription was fetched)
\* leaves current_period_start, current_period_end and trial_end of the row
\* as they were whenever the value it draws for that field is absent.
C4_PartialUpdate ==
  [][/\ IsDelivery(TypeUpdated)
          => \A u \in BySubscriptionId(subs, last'.data.id) :
               KeepsAbsent(u, last'.data, last'.retrieve_ok)
     /\ IsDelivery(TypeCreated)
          => \A u \in ByCustomerId(subs, last'.data.customer) :
               KeepsAbsent(u, last'.data, last'.retrieve_ok)
     /\ (IsDelivery(TypeCheckoutCompleted) /\ last'.pre_ok
         /\ last'.data.subscription # NoId)
          => \A u \in ByCustomerId(subs, last'.data.customer) :
               KeepsAbsent(u, provider[last'.data.subscription],
                           last'.retrieve_ok)]_vars

\* An updated event without trial_end was reconciled against a provider
\* object without a period, and the row still has the period end and the
\* trial end it had.
C4_Witness ==
  /\ last.type = TypeUpdated /\ last.resp = 200 /\ last.retrieve_ok
  /\ BySubscriptionId(subs, last.data.id) # {}
  /\ _extract_period_dates_from_subscription(provider[last.data.id]) = <<None, None>>
  /\ last.data.trial_end = None
  /\ RowOf(last.data.id).current_period_end # None
  /\ RowOf(last.data.id).trial_end # None

\* The rows after a deleted event for `id` is handled again at clock reading
\* t: only current_period_end of the row with that id moves to t.
EndMovedTo(db, id, t) ==
  [u \in DOMAIN db |->
     IF u \in BySubscriptionId(db, id)
     THEN [db[u] EXCEPT !.current_period_end = t] ELSE db[u]]

\* C5 as claimed: handling the same event a second time after a success
\* response, the provider unchanged, leaves every field of every row and the
\* number of rows as they were, for each of the six routed event types.
C5_RerunChangesNothing == [][Redelivery => subs' = subs]_vars

\* C5 amended: the same, every provider call returning or failing as it did
\* the first time, except that a deleted event handled again sets
\* current_period_end of its row to the time of the second handling.
C5_RerunSafe ==
  [][Redelivery =>
       subs' = IF last.type = TypeDeleted
               THEN EndMovedTo(subs, last.data.id, now) ELSE subs]_vars

\* A deleted event was handled a second time at a later clock reading than
\* the first and the row's period ends there.
C5_Witness ==
  /\ last.type = TypeDeleted /\ last.again
  /\ BySubscriptionId(subs, last.data.id) # {}
  /\ now > 1
  /\ RowOf(last.data.id).current_period_end = now


\* The table after worker first's event and then worker second's event are
\* handled one after the other, from the table both deliveries started on.
Serial(first, second) ==
  RunHandler(RunHandler(procs.start, procs.run[first].event, provider, now),
             procs.run[second].event, provider, now)

\* C2: when two deliveries for the same local Subscription have been
\* handled concurrently, each handler reading the row, assigning to its copy
\* and saving the whole row, the table equals the result of running the two
\* handlers in one of the two serial orders.
C2_ConcurrentSerializable ==
  (\A w \in Workers : procs.run[w].pc = "done")
    => subs \in {Serial(1, 2), Serial(2, 1)}


\* The step is a webhook request of the application (the request is then
\* last'.request).
IsWebhook == last'.op = "webhook"

\* The request passes every check made before the event is read.
Verified(request) ==
  /\ request.secret
  /\ request.sig_header = GoodSignature
  /\ request.payload_ok

\* C11: a verified event whose type is none of the routed types is answered
\* with the success acknowledgement and leaves every Subscription row as it
\* was.
C11_UnroutedNoOp ==
  [][(IsWebhook /\ Verified(last'.request) /\ last'.request.type = TypeUnrouted)
     => subs' = subs /\ provider' = provider /\ last'.resp = 200]_vars

\* A customer.subscription.paused event was answered 200 while a row holds
\* its subscription id and differs from the object the event carries.
C11_Witness ==
  /\ last.op = "webhook" /\ last.request.type = TypeUnrouted /\ last.resp = 200
  /\ BySubscriptionId(subs, last.request.data.id) # {}
  /\ ~AgreesWith(RowOf(last.request.data.id), last.request.data)

\* The subscription id an event's handler looks the row up by, from the
\* event's object.
EventSubscriptionId(type, data) ==
  IF type \in {TypePaid, TypePaymentFailed} THEN data.subscription ELSE data.id

\* C12: an updated, deleted, invoice paid or invoice payment failed event
\* whose subscription id matches no row, and a checkout session completed
\* event whose customer id matches no row, leave the table as it was (no row
\* created, none modified) and are answered 200.
C12_NotFoundNoOp ==
  [][/\ \A type \in {TypeUpdated, TypeDeleted, TypePaid, TypePaymentFailed} :
          (IsDelivery(type)
           /\ BySubscriptionId(subs, EventSubscriptionId(type, last'.data)) = {})
          => subs' = subs /\ last'.resp = 200
     /\ (IsDelivery(TypeCheckoutCompleted)
         /\ ByCustomerId(subs, last'.data.customer) = {})
          => subs' = subs /\ last'.resp = 200]_vars

\* An invoice.payment_failed event for a subscription id no row holds was
\* answered 200 while the table has a row (with another id).
C12_Witness ==
  /\ last.type = TypePaymentFailed /\ last.resp = 200
  /\ last.data.subscription # NoId
  /\ BySubscriptionId(subs, last.data.subscription) = {}
  /\ \E u \in DOMAIN subs : subs[u].stripe_subscription_id # NoId

\* C13: a webhook request is answered 400 and no row changes whenever the
\* signing secret is not configured, the signature header is missing, the
\* signature is invalid or the payload is malformed; so a request that
\* changes a row has passed all four checks.
C13_RejectedBeforeHandling ==
  [][(IsWebhook /\ ~Verified(last'.request))
     => last'.resp = 400 /\ subs' = subs]_vars

\* A deleted event with a signature that does not match was answered 400
\* while the row with its subscription id is not canceled.
C13_Witness ==
  /\ last.op = "webhook" /\ last.resp = 400
  /\ last.request.secret /\ last.request.payload_ok
  /\ last.request.sig_header = BadSignature
  /\ last.request.type = TypeDeleted
  /\ BySubscriptionId(subs, last.request.data.id) # {}
  /\ RowOf(last.request.data.id).status # STATUS_CANCELED


\* The handler of the event made a provider call of its own (not the
\* reconciler's re-fetch) and the call raised: Customer.retrieve in the
\* created handler when no row has the customer, Subscription.retrieve in
\* the checkout completed handler when a row has the customer.
HandlerCallRaised(db, event) ==
  /\ ~event.pre_ok
  /\ \/ event.type = TypeCreated /\ ByCustomerId(db, event.data.customer) = {}
     \/ /\ event.type = TypeCheckoutCompleted
        /\ event.data.subscription # NoId
        /\ ByCustomerId(db, event.data.customer) # {}

\* C14: for every routed event type, checkout session completed included,
\* when a provider call made by the handler raises while the event is
\* handled, the response is 500; 200 is returned only if no such call
\* raised.
C14_FailureAnswered500 ==
  [][\A type \in EventTypes :
       (IsDelivery(type) /\ HandlerCallRaised(subs, last'))
       => last'.resp = 500]_vars

\* C15: when stripe.Subscription.retrieve raises inside
\* update_subscription_from_stripe (reached from an updated event, or from a
\* created event for a customer a row has), the handler still returns and
\* the row is saved with status mapped from the payload, trial_end from the
\* payload if present there, and cancel_at_period_end from the payload.
C15_RefetchFailureNotFatal ==
  [][\A type \in {TypeUpdated, TypeCreated} :
       (IsDelivery(type) /\ ~last'.retrieve_ok)
       => \A u \in (IF type = TypeUpdated
                    THEN BySubscriptionId(subs, last'.data.id)
                    ELSE ByCustomerId(subs, last'.data.customer)) :
            /\ last'.resp = 200
            /\ subs'[u].status = map_stripe_status_to_model(last'.data.status)
            /\ last'.data.trial_end # None
                 => subs'[u].trial_end = last'.data.trial_end
            /\ subs'[u].cancel_at_period_end = last'.data.cancel_at_period_end]_vars

\* An updated event with a trial end was reconciled while the re-fetch
\* raised: the row is trialing with that trial end, and its period end is
\* not the provider's.
C15_Witness ==
  /\ last.type = TypeUpdated /\ ~last.retrieve_ok /\ last.resp = 200
  /\ BySubscriptionId(subs, last.data.id) # {}
  /\ last.data.trial_end # None
  /\ RowOf(last.data.id).status = STATUS_TRIALING
  /\ RowOf(last.data.id).trial_end = last.data.trial_end
  /\ ~AgreesWith(RowOf(last.data.id), provider[last.data.id])

\* C16: in every reachable state, after any sequence of webhook events,
\* checkout requests, cancel requests and CLI syncs, the status of each
\* Subscription is one of the seven values of STATUS_CHOICES.
C16_StatusInChoices ==
  \A u \in DOMAIN subs : subs[u].status \in STATUS_CHOICES

\* C17: in every reachable state, after any sequence of reconciles, invoice
\* events and deleted events, a Subscription that has both
\* current_period_start and current_period_end set has current_period_end
\* strictly after current_period_start.
C17_PeriodOrdered ==
  \A u \in DOMAIN subs :
    (subs[u].current_period_start # None /\ subs[u].current_period_end # None)
    => subs[u].current_period_start < subs[u].current_period_end


\* C18: in every reachable state no two Subscription rows share a non-null
\* external subscription id and no two share a non-null external customer
\* id; an operation that would give a row an id another row holds does not
\* persist it.
C18_ExternalIdsUnique ==
  \A u \in DOMAIN subs, v \in DOMAIN subs :
    u # v =>
      /\ subs[u].stripe_subscription_id # NoId
           => subs[u].stripe_subscription_id # subs[v].stripe_subscription_id
      /\ subs[u].stripe_customer_id # NoId
           => subs[u].stripe_customer_id # subs[v].stripe_customer_id

\* A checkout session completed event asked a row to adopt a subscription id
\* that another user's row holds; the handler's fetch returned, the event was
\* answered, and the row of the session's customer does not have the id.
C18_Witness ==
  /\ last.op = "webhook" /\ last.request.type = TypeCheckoutCompleted
  /\ last.request.pre_ok /\ last.resp = 200
  /\ \E u \in DOMAIN subs, v \in DOMAIN subs :
       /\ u # v
       /\ subs[u].stripe_customer_id = last.request.data.customer
       /\ subs[v].stripe_subscription_id = last.request.data.subscription
       /\ subs[u].stripe_subscription_id # last.request.data.subscription

C20_CancelProviderFirst ==
  [][(last'.op = "cancel" /\ last'.user \in DOMAIN subs)
     => LET u == last'.user
            id == subs[u].stripe_subscription_id
        IN  /\ id = NoId
                 => ~last'.called /\ subs' = subs /\ provider' = provider
            /\ subs' # subs
                 => /\ last'.called /\ last'.modify_ok
                    /\ provider'[id].cancel_at_period_end
            /\ ~last'.modify_ok => subs' = subs]_vars

\* A cancel request went through: modify was called and returned, the row's
\* flag is set and so is the provider's; the other user's row has no
\* subscription id.
C20_Witness ==
  /\ last.op = "cancel" /\ last.called /\ last.modify_ok
  /\ last.user \in DOMAIN subs
  /\ subs[last.user].cancel_at_period_end
  /\ provider[subs[last.user].stripe_subscription_id].cancel_at_period_end
  /\ \E v \in DOMAIN subs : subs[v].stripe_subscription_id = NoId


\* The step is an operation of the given kind (recorded in last'); the clock
\* stands still meanwhile.
IsStep(op) == last'.op = op /\ now' = now

\* C21: when a provider call fails during a mutating user operation
\* (stripe.Subscription.modify in cancel, stripe.Customer.create or
\* stripe.checkout.Session.create in checkout), the user gets an error
\* message and the table is the same as before the request.
C21_ProviderFailureLeavesState ==
  [][/\ (IsStep("checkout")
         /\ \/ CallCustomerCreate \in last'.calls /\ ~last'.create_ok
            \/ CallSessionCreate \in last'.calls /\ ~last'.session_ok)
          => last'.message = MessageError /\ subs' = subs
     /\ (IsStep("cancel") /\ last'.called /\ ~last'.modify_ok)
          => subs' = subs]_vars

\* C22: the checkout POST answers with an error, makes no provider call and
\* leaves the table as it was when STRIPE_SECRET_KEY or SUBSCRIPTION_PRICE_ID
\* is not configured or SUBSCRIPTION_PRICE_ID is a product id.
C22_MisconfiguredCheckoutAborts ==
  [][(IsStep("checkout")
      /\ \/ ~last'.settings.secret_key
         \/ last'.settings.price_id \in {NoPrice, ProductId})
     => /\ last'.message = MessageError
        /\ last'.calls = {}
        /\ subs' = subs]_vars

\* C23: the sync command ends in an error, without calling the provider and
\* without changing the table, when STRIPE_SECRET_KEY is not configured, no
\* user has the email, the user has no Subscription, or the Subscription has
\* no external subscription id; when its fetch from the provider raises it
\* ends in an error with the table unchanged.
C23_SyncFailsCleanly ==
  [][IsStep("sync")
     => LET u == last'.user
            refused == \/ ~last'.secret_key
                       \/ u = NoUser
                       \/ u \notin DOMAIN subs
                       \/ subs[u].stripe_subscription_id = NoId
        IN  /\ refused => /\ last'.outcome = OutcomeError
                          /\ ~last'.called
                          /\ subs' = subs
            /\ (~refused /\ ~last'.fetch_ok)
                 => last'.outcome = OutcomeError /\ subs' = subs]_vars

\* The command was run without STRIPE_SECRET_KEY for a user whose
\* Subscription has a subscription id and differs from the provider's
\* object: it ended in an error without a provider call.
C23_Witness ==
  /\ last.op = "sync" /\ ~last.secret_key
  /\ last.outcome = OutcomeError /\ ~last.called
  /\ last.user \in DOMAIN subs
  /\ subs[last.user].stripe_subscription_id # NoId
  /\ ~AgreesWith(subs[last.user], provider[subs[last.user].stripe_subscription_id])

\* C24: an authenticated user passes the subscription gate exactly when the
\* user is staff or superuser or has a Subscription for which is_active() is
\* true at the time of the request; otherwise the user is redirected.
C24_GateGrantsExactly ==
  [][(IsStep("gate") /\ last'.authenticated)
     => /\ last'.outcome \in {GateGranted, GateRedirect}
        /\ last'.outcome = GateGranted
             <=> \/ last'.is_staff
                 \/ last'.is_superuser
                 \/ /\ last'.user \in DOMAIN subs
                    /\ is_active(subs[last'.user], now)]_vars

\* A staff user who is no superuser and whose Subscription is canceled was
\* let through.
C24_Witness ==
  /\ last.op = "gate" /\ last.authenticated
  /\ last.is_staff /\ ~last.is_superuser
  /\ last.outcome = GateGranted
  /\ last.user \in DOMAIN subs
  /\ subs[last.user].status = STATUS_CANCELED


\* C25: update_subscription_from_stripe leaves the external subscription id
\* of a record that already has one as it is, even when the payload carries
\* a different id (a created event for the customer of a row that holds
\* another subscription id).
C25_KeepsExistingId ==
  [][IsDelivery(TypeCreated)
     => \A u \in ByCustomerId(subs, last'.data.customer) :
          subs[u].stripe_subscription_id # NoId
          => subs'[u].stripe_subscription_id = subs[u].stripe_subscription_id]_vars

\* C26: when the re-fetch raises inside reconcile, the period applied to the
\* row is what the period extractor returns for the payload, first line item
\* included: each of start and end it finds is stored.
C26_FallbackUsesExtractor ==
  [][(IsDelivery(TypeUpdated) /\ ~last'.retrieve_ok)
     => \A u \in BySubscriptionId(subs, last'.data.id) :
          LET dates == _extract_period_dates_from_subscription(last'.data)
          IN  /\ dates[1] # None => subs'[u].current_period_start = dates[1]
              /\ dates[2] # None => subs'[u].current_period_end = dates[2]]_vars

\* The row as an invoice paid handler has to leave it when the re-fetch
\* returns: status active, each of period start and end the extractor finds
\* on the provider's subscription, everything else as it was.
PaidRow(row, id) ==
  LET dates == _extract_period_dates_from_subscription(provider[id])
  IN  [row EXCEPT
         !.status = STATUS_ACTIVE,
         !.current_period_start = IF dates[1] # None THEN dates[1] ELSE @,
         !.current_period_end = IF dates[2] # None THEN dates[2] ELSE @]

\* C27: an invoice.paid event whose subscription id matches a row sets the
\* row's status to active whatever it was and leaves trial_end,
\* cancel_at_period_end and both external ids as they were; when the re-fetch
\* returns, period start and end become what the extractor finds on the
\* provider's subscription, each only if present; an invoice without a
\* subscription id changes nothing; invoice.payment_succeeded is routed to
\* the same handler, with the same result.
C27_InvoicePaidActivates ==
  [][IsDelivery(TypePaid)
     => /\ last'.data.subscription = NoId => subs' = subs
        /\ \A u \in BySubscriptionId(subs, last'.data.subscription) :
             /\ subs'[u].status = STATUS_ACTIVE
             /\ subs'[u].trial_end = subs[u].trial_end
             /\ subs'[u].cancel_at_period_end = subs[u].cancel_at_period_end
             /\ subs'[u].stripe_subscription_id = subs[u].stripe_subscription_id
             /\ subs'[u].stripe_customer_id = subs[u].stripe_customer_id
             /\ last'.retrieve_ok
                  => subs'[u] = PaidRow(subs[u], last'.data.subscription)
        /\ subs' = route(subs,
                         WebhookRequest(TRUE, GoodSignature, TRUE,
                                        TypePaymentSucceeded, last'.data, TRUE,
                                        last'.retrieve_ok),
                         provider, now).db]_vars

\* An invoice.paid event was handled, the re-fetch returning, for a row that
\* has a trial end and is set to cancel: the row is active with the
\* provider's period end.
C27_Witness ==
  /\ last.type = TypePaid /\ last.retrieve_ok /\ last.resp = 200
  /\ BySubscriptionId(subs, last.data.subscription) # {}
  /\ RowOf(last.data.subscription).status = STATUS_ACTIVE
  /\ RowOf(last.data.subscription).trial_end # None
  /\ RowOf(last.data.subscription).cancel_at_period_end
  /\ RowOf(last.data.subscription).current_period_end =
       _extract_period_dates_from_subscription(provider[last.data.subscription])[2]

\* C28: an invoice.payment_failed event whose subscription id matches a row
\* sets that row's status to past_due and leaves every other field of it,
\* and every other row, as they were.
C28_PaymentFailedOnlyStatus ==
  [][IsDelivery(TypePaymentFailed)
     => \A u \in BySubscriptionId(subs, last'.data.subscription) :
          /\ subs' = [subs EXCEPT ![u].status = STATUS_PAST_DUE]
          /\ last'.resp = 200]_vars

\* An invoice.payment_failed event was handled for a row that is set to
\* cancel and has a period: the row is past_due, flag and period in place.
C28_Witness ==
  /\ last.type = TypePaymentFailed /\ last.resp = 200
  /\ BySubscriptionId(subs, last.data.subscription) # {}
  /\ RowOf(last.data.subscription).status = STATUS_PAST_DUE
  /\ RowOf(last.data.subscription).cancel_at_period_end
  /\ RowOf(last.data.subscription).current_period_end # None

\* C29: after a checkout.session.completed event carrying subscription id X
\* was handled for a customer id a row has and answered 200, that row's
\* external subscription id is X and its status is the mapped status of the
\* provider's subscription X.
C29_CheckoutAdoptsId ==
  [][(IsDelivery(TypeCheckoutCompleted)
      /\ last'.data.subscription # NoId
      /\ last'.resp = 200)
     => \A u \in ByCustomerId(subs, last'.data.customer) :
          /\ subs'[u].stripe_subscription_id = last'.data.subscription
          /\ subs'[u].status =
               map_stripe_status_to_model(provider[last'.data.subscription].status)]_vars

\* A verified subscription created event was delivered in this step.
IsCreated ==
  IsWebhook /\ Verified(last'.request) /\ last'.request.type = TypeCreated

\* The user the provider customer's metadata names, when Customer.retrieve
\* returns and that user exists; NoUser otherwise.
NamedUser(request) ==
  LET user_id == CustomerMetadataUserId(request.data.customer)
  IN  IF request.pre_ok /\ user_id \in Users THEN user_id ELSE NoUser

\* The created event's case "a row with the event's customer id exists": no
\* row is added, rows of other users stay, and when the webhook answers 200
\* the row carries the payload's mapped status and subscription id.
CreatedReconciles ==
  \A u \in ByCustomerId(subs, last'.request.data.customer) :
    /\ DOMAIN subs' = DOMAIN subs
    /\ \A v \in DOMAIN subs \ {u} : subs'[v] = subs[v]
    /\ subs'[u].stripe_customer_id = subs[u].stripe_customer_id
    /\ last'.resp = 200
         => /\ subs'[u].stripe_subscription_id = last'.request.data.id
            /\ subs'[u].status =
                 map_stripe_status_to_model(last'.request.data.status)

\* A row for user_id was created with the event's customer id and
\* subscription id and reconciled; every row there was stays as it was.
CreatedFor(user_id) ==
  /\ DOMAIN subs' = DOMAIN subs \cup {user_id}
  /\ \A v \in DOMAIN subs \ {user_id} : subs'[v] = subs[v]
  /\ subs'[user_id].stripe_customer_id = last'.request.data.customer
  /\ subs'[user_id].stripe_subscription_id = last'.request.data.id
  /\ subs'[user_id].status = map_stripe_status_to_model(last'.request.data.status)
  /\ last'.resp = 200

\* C30 as stated: a created event reconciles the row that has its customer
\* id; otherwise, if the customer's metadata names an existing user, a row
\* with the event's customer id and subscription id exists for that user
\* afterwards; otherwise nothing is created.
C30_ResolveOrCreate ==
  [][IsCreated
     => /\ CreatedReconciles
        /\ ByCustomerId(subs, last'.request.data.customer) = {}
             => IF NamedUser(last'.request) # NoUser
                THEN CreatedFor(NamedUser(last'.request))
                ELSE subs' = subs]_vars

\* Another row holds the subscription id of the event.
IdHeld(db, id) == BySubscriptionId(db, id) # {}

\* C30: a created event reconciles the row that has its customer id;
\* otherwise, if the customer's metadata names an existing user who has no
\* Subscription and no row holds the event's subscription id, a row with the
\* event's customer id and subscription id is created for that user and
\* reconciled; if the named user already has a Subscription or the
\* subscription id is held, the webhook answers 500 and no row is created or
\* changed; if the metadata names no existing user nothing is created.  Each
\* user has at most one Subscription: rows are keyed by user and a row there
\* was is never replaced by the created one.
C30_ResolveOrCreateFree ==
  [][IsCreated
     => /\ CreatedReconciles
        /\ ByCustomerId(subs, last'.request.data.customer) = {}
             => IF NamedUser(last'.request) = NoUser
                THEN subs' = subs
                ELSE IF \/ NamedUser(last'.request) \in DOMAIN subs
                        \/ IdHeld(subs, last'.request.data.id)
                THEN subs' = subs /\ last'.resp = 500
                ELSE CreatedFor(NamedUser(last'.request))]_vars

\* A created event for a second customer of user 1, who has a Subscription
\* under the first customer, was answered 500 and user 1's row is still the
\* first customer's.
C30_Witness ==
  /\ last.op = "webhook" /\ last.request.type = TypeCreated
  /\ Verified(last.request) /\ last.request.pre_ok
  /\ last.request.data.customer = SecondCustomer
  /\ last.resp = 500
  /\ 1 \in DOMAIN subs
  /\ subs[1].stripe_customer_id = CustomerOf(1)

\* C31: a checkout request by a user whose Subscription has a customer id
\* asks the provider for no customer and leaves that id; a request by a user
\* without one for which stripe.Customer.create returns leaves the user's
\* Subscription with the id of the customer created for that user, the row
\* being new with status incomplete if there was none; and over any sequence
\* of checkout requests at most one customer is created per user.
C31_CustomerBootstrap ==
  [][IsStep("checkout")
     => LET u == last'.user
            stored == u \in DOMAIN subs /\ subs[u].stripe_customer_id # NoId
        IN  /\ stored => /\ CallCustomerCreate \notin last'.calls
                         /\ customers' = customers
                         /\ subs'[u].stripe_customer_id = subs[u].stripe_customer_id
            /\ (~stored /\ CallCustomerCreate \in last'.calls /\ last'.create_ok)
                 => /\ customers'[u] = customers[u] + 1
                    /\ u \in DOMAIN subs'
                    /\ subs'[u].stripe_customer_id # NoId
                    /\ CustomerMetadataUserId(subs'[u].stripe_customer_id) = u
                    /\ u \notin DOMAIN subs
                         => subs'[u] = NewSubscription(subs'[u].stripe_customer_id,
                                                       NoId, STATUS_INCOMPLETE)
            /\ \A v \in Users : customers'[v] <= 1]_vars

\* User 2, who had no Subscription, has posted the checkout page twice: one
\* customer was created, the second request asked for none and the row is
\* the incomplete one with that customer.
C31_Witness ==
  /\ last.op = "checkout" /\ last.user = 2
  /\ last.settings.secret_key /\ last.settings.price_id = PriceId
  /\ CallCustomerCreate \notin last.calls
  /\ CallSessionCreate \in last.calls
  /\ customers[2] = 1
  /\ subs[2] = NewSubscription(CustomerOf(2), NoId, STATUS_INCOMPLETE)

\* C32: a deleted event changes no row whose external subscription id
\* differs from the id in the event: a row that has moved on to a newer
\* subscription id is left as it is by a deleted event for its previous id.
C32_DeletedOnlyExactId ==
  [][IsDelivery(TypeDeleted)
     => /\ DOMAIN subs' = DOMAIN subs
        /\ \A u \in DOMAIN subs :
             subs[u].stripe_subscription_id # last'.data.id => subs'[u] = subs[u]
        /\ last'.resp = 200]_vars

\* A deleted event for sub_1 was delivered while the row, reconciled and
\* active, holds sub_2: the row is still active.
C32_Witness ==
  /\ last.type = TypeDeleted /\ last.data.id = "sub_1" /\ last.resp = 200
  /\ 1 \in DOMAIN subs
  /\ subs[1].stripe_subscription_id = "sub_2"
  /\ subs[1].status = STATUS_ACTIVE
  /\ subs[1].current_period_end # None

\* C34: when the re-fetch raises while an invoice.paid event for a known
\* subscription is handled, the row is saved with status active and with
\* each of period start and end taken from the invoice's period_start and
\* period_end when that field is present and left as it was otherwise,
\* nothing else changes, and the webhook answers 200.
C34_InvoiceFallback ==
  [][(IsDelivery(TypePaid) /\ ~last'.retrieve_ok)
     => \A u \in BySubscriptionId(subs, last'.data.subscription) :
          /\ subs' = [subs EXCEPT
                        ![u].status = STATUS_ACTIVE,
                        ![u].current_period_start =
                          IF last'.data.period_start # None
                          THEN last'.data.period_start ELSE @,
                        ![u].current_period_end =
                          IF last'.data.period_end # None
                          THEN last'.data.period_end ELSE @]
          /\ last'.resp = 200]_vars

\* An invoice.paid event carrying only a period start was handled with the
\* re-fetch failing: the row is active with the invoice's start, and keeps
\* a period end the invoice did not give.
C34_Witness ==
  /\ last.type = TypePaid /\ ~last.retrieve_ok /\ last.resp = 200
  /\ last.data.period_start # None /\ last.data.period_end = None
  /\ BySubscriptionId(subs, last.data.subscription) # {}
  /\ RowOf(last.data.subscription).status = STATUS_ACTIVE
  /\ RowOf(last.data.subscription).current_period_start = last.data.period_start
  /\ RowOf(last.data.subscription).current_period_end = MaxTime
  /\ _extract_period_dates_from_subscription(provider[last.data.subscription])[1]
       # last.data.period_start

\* C33: a sync command for a user whose Subscription has an external
\* subscription id, Stripe configured and the provider answering, ends in
\* success and leaves the row with the provider subscription's mapped
\* status and cancel_at_period_end and with its billing period: the
\* top-level period when the object has one (classic shape), the first line
\* item's when it has none (flexible shape).
C33_SyncConverges ==
  [][(IsStep("sync")
      /\ last'.secret_key /\ last'.fetch_ok
      /\ last'.user \in DOMAIN subs
      /\ subs[last'.user].stripe_subscription_id # NoId
      /\ LET object == provider[subs[last'.user].stripe_subscription_id]
         IN  object.current_period_end # None \/ object.items # NoItems)
     => LET object == provider[subs[last'.user].stripe_subscription_id]
            row == subs'[last'.user]
        IN  /\ last'.outcome = OutcomeSuccess
            /\ row.status = map_stripe_status_to_model(object.status)
            /\ row.cancel_at_period_end = object.cancel_at_period_end
            /\ object.current_period_end # None
                 => /\ row.current_period_start = object.current_period_start
                    /\ row.current_period_end = object.current_period_end
            /\ (object.current_period_end = None /\ object.items # NoItems)
                 => /\ row.current_period_start = object.items[1].current_period_start
                    /\ row.current_period_end = object.items[1].current_period_end]_vars

\* The step is a request to one of the unit views.
IsUnitRequest == last'.op \in {"edit", "assign", "create and assign", "remove"}

\* The tenancies whose unit or tenant belongs to another user than `user`.
TenanciesOfOthers(us, tn, tc, user) ==
  {y \in tc : UnitUser(us, y.unit) # user \/ tn[y.tenant].user # user}

\* C35: a unit edit, assign tenant, create-and-assign tenant or remove
\* tenant request changes something only when the unit's property belongs
\* to the requesting user; it leaves every unit, tenant and tenancy of the
\* other users as it was, a tenant it creates is the requesting user's, and
\* afterwards the unit and the tenant of every tenancy belong to one user.
C35_TenantIsolation ==
  [][IsUnitRequest
     => LET user == last'.user
        IN  /\ ~unit_found(units, user, last'.unit)
                 => /\ last'.answer = "404"
                    /\ <<units, tenants, tenancies>>' = <<units, tenants, tenancies>>
            /\ \A i \in DOMAIN units :
                 UnitUser(units, i) # user
                 => i \in DOMAIN units' /\ units'[i] = units[i]
            /\ \A i \in DOMAIN units' : UnitUser(units', i) = UnitUser(units, i)
            /\ \A t \in DOMAIN tenants : t \in DOMAIN tenants' /\ tenants'[t] = tenants[t]
            /\ \A t \in DOMAIN tenants' \ DOMAIN tenants : tenants'[t].user = user
            /\ TenanciesOfOthers(units', tenants', tenancies', user)
                 = TenanciesOfOthers(units, tenants, tenancies, user)
            /\ \A y \in tenancies' :
                 UnitUser(units', y.unit) = tenants'[y.tenant].user]_vars

\* User 2 posted user 1's tenant to the assign view of the own unit while
\* both users have a tenancy: the form was refused and user 1's tenancy, for
\* the unit moved to user 1's second property, is in place.
C35_Witness ==
  /\ last.op = "assign" /\ last.user = 2 /\ last.unit = 2
  /\ last.answer = "form errors"
  /\ units[1].property = 2
  /\ \E y \in tenancies : y.unit = 1 /\ tenants[y.tenant].user = 1
  /\ \E y \in tenancies : y.unit = 2 /\ y.tenant = 3 /\ tenants[3].user = 2

====
